---- MODULE Spec2Model ----
(***************************************************************************)
(* State-machine model of the deployment commands of the repository:       *)
(*   create                    src/src/command/create.js  lines 33-408     *)
(*   set-version               src/src/command/create.js  lines 591-648    *)
(*   add-storage-event-source  src/unnamed/part_000       lines 9-113      *)
(* Every promise chain is modelled callback by callback: an action is the  *)
(* settling of the awaited operation together with the callbacks that run  *)
(* synchronously after it, up to the next awaited operation.               *)
(***************************************************************************)
EXTENDS Integers, Sequences, FiniteSets, TLC

(***************************************************************************)
(* Bounds of the model.                                                    *)
(***************************************************************************)
\* how many files the policies option can match
MaxPolicyFiles == 2
\* largest value of the aws-retries option
MaxAwsRetries == 3

(***************************************************************************)
(* Program constants.                                                      *)
(***************************************************************************)
\* create.js:51  `... || 5`
DefaultAwsRetries == 5

(***************************************************************************)
(* JavaScript values.  A string is a sequence of one-character strings     *)
(* where the code inspects its characters, otherwise a TLA+ string; ""     *)
(* and <<>> are the falsy "absent" values; an optional number or record x  *)
(* is <<>> (undefined) or <<x>>.                                           *)
(***************************************************************************)
\* String.prototype.indexOf('.') >= 0
HasDot(s) == \E i \in DOMAIN s : s[i] = "."

Ev(op, ev, arg) == [op |-> op, ev |-> ev, arg |-> arg]

VARIABLES
    pc,              \* the awaited operation of the create promise chain
    options,         \* create's options argument
    disk,            \* local file system: project, descriptor, staging
    error,           \* rejection reason of the promise create returned
    result,          \* value the promise create returned resolved with
    roleMetadata,    \* create.js:34
    s3Key,           \* create.js:35
    packageArchive,  \* create.js:36
    functionName,    \* create.js:39
    workingDir,      \* create.js:40
    lambdaMetadata,  \* the value threaded from createLambda to cleanup
    maxTimes,        \* attempts the retry wrapper has left
    apiModule,       \* what require() of the api module returned
    inflight,        \* remote calls issued and not yet settled
    events,          \* history: calls issued and settled, notifications
    cloud,           \* remote state: roles, policies, function, aliases, api
    run,             \* add-storage-event-source: the state of each invocation
    bucketNotification,  \* the bucket's notification configuration (remote)
    lambdaPermissions,   \* invoke permissions attached to functions (remote)
    sv,              \* set-version: the state of the invocation
    svCloud,         \* set-version: the function, its aliases, the gateway (remote)
    svEvents,        \* set-version: calls issued and settled
    xp,              \* generate-serverless-express-proxy: the invocation
    xpDisk           \* its source directory: files, the proxy module, dependencies

createVars == <<pc, options, disk, error, result, roleMetadata, s3Key,
                packageArchive, functionName, workingDir, lambdaMetadata,
                maxTimes, apiModule, inflight, events, cloud>>

s3Vars == <<run, bucketNotification, lambdaPermissions>>

svVars == <<sv, svCloud, svEvents>>

xpVars == <<xp, xpDisk>>

vars == <<createVars, s3Vars, svVars, xpVars>>

(***************************************************************************)
(* Inputs of create: the options object and the project on disk.           *)
(***************************************************************************)
RoleArn == "arn:aws:iam::1:role/shared"

\* util/judge-role isRoleArn: the string has the shape of a role ARN
isRoleArn(role) == role = RoleArn

MemoryValues == {64, 128, 130, 3072}

TimeoutValues == {0, 1, 900, 901, 9001}

PolicyFileNames == <<"a.json", "b.json", "c.json", "d.json">>

\* A valid invocation: handler given, everything else absent, project in place.
DefaultScenario ==
    [region |-> "us-east-1", handler |-> <<"m", ".", "h">>, api_module |-> <<>>,
     deploy_proxy_api |-> FALSE, version |-> "", role |-> "", policies |-> "",
     keep |-> FALSE, memory |-> <<>>, timeout |-> <<>>, allow_recursion |-> FALSE,
     s3_key |-> "", use_s3_bucket |-> "", aws_retries |-> <<>>,
     configDir |-> TRUE, configFile |-> FALSE, packageJson |-> TRUE,
     policyFiles |-> 0]

\* The scenarios that differ from sc in one of the options that do not change
\* the shape of the pipeline (use-s3-bucket also together with s3-key).
Vary(sc) ==
    {[sc EXCEPT !.region = ""],
     [sc EXCEPT !.allow_recursion = TRUE],
     [sc EXCEPT !.s3_key = "path/to/file.zip"],
     [sc EXCEPT !.use_s3_bucket = "uploads"],
     [sc EXCEPT !.use_s3_bucket = "uploads", !.s3_key = "path/to/file.zip"],
     [sc EXCEPT !.keep = TRUE],
     [sc EXCEPT !.deploy_proxy_api = TRUE],
     [sc EXCEPT !.configDir = FALSE],
     [sc EXCEPT !.configFile = TRUE],
     [sc EXCEPT !.packageJson = FALSE]}
    \cup {[sc EXCEPT !.memory = <<m>>] : m \in MemoryValues}
    \cup {[sc EXCEPT !.timeout = <<t>>] : t \in TimeoutValues}
    \cup {[sc EXCEPT !.aws_retries = <<n>>] : n \in 1..MaxAwsRetries}

Variations == {DefaultScenario} \cup Vary(DefaultScenario)

\* The options that decide which steps the pipeline has, in every combination.
Shapes ==
    [handler : {<<>>, <<"m">>, <<"m", ".", "h">>},
     api_module : {<<>>, <<"w">>, <<"w", ".", "j">>},
     version : {"", "dev", "latest"},
     role : {"", "shared", RoleArn},
     policyFiles : {-1} \cup (0..MaxPolicyFiles)]

Scenarios ==
    {[sc EXCEPT !.handler = sh.handler, !.api_module = sh.api_module,
                !.version = sh.version, !.role = sh.role,
                !.policies = IF sh.policyFiles < 0 THEN "" ELSE "policies",
                !.policyFiles = IF sh.policyFiles < 0 THEN 0 ELSE sh.policyFiles]
        : sc \in Variations, sh \in Shapes}

OptionsOf(sc) ==
    [region |-> sc.region, handler |-> sc.handler, api_module |-> sc.api_module,
     deploy_proxy_api |-> sc.deploy_proxy_api, version |-> sc.version,
     role |-> sc.role, policies |-> sc.policies, keep |-> sc.keep,
     memory |-> sc.memory, timeout |-> sc.timeout,
     allow_recursion |-> sc.allow_recursion, s3_key |-> sc.s3_key,
     use_s3_bucket |-> sc.use_s3_bucket, aws_retries |-> sc.aws_retries]

OldDescriptor ==
    [lambda |-> [role |-> "old-role", name |-> "old", region |-> "us-east-1",
                 sharedRole |-> FALSE],
     api |-> <<>>]

DiskOf(sc) ==
    [configDir |-> sc.configDir,
     configFile |-> IF sc.configFile THEN <<OldDescriptor>> ELSE <<>>,
     packageJson |-> sc.packageJson,
     policyFiles |-> sc.policyFiles,
     workingDir |-> FALSE,
     archive |-> FALSE]

(***************************************************************************)
(* create.js:48-53  option defaults.                                       *)
(***************************************************************************)
\* create.js:558  the default the documentation of aws-retries states
DocumentedAwsRetries == 15

\* the aws-retries option not looked at
awsRetriesIgnored(o) == DefaultAwsRetries

\* create.js:51  options['aws-retries'] && parseInt(...) || 5
awsRetries(o) ==
    IF o.aws_retries # <<>> /\ o.aws_retries[1] # 0
    THEN o.aws_retries[1] ELSE DefaultAwsRetries

\* create.js:67-73  the files the policies option matches
policyFiles(d) == {PolicyFileNames[i] : i \in 1..d.policyFiles}

\* the checks without the one for a descriptor that is already there
validationErrorDescriptorUnchecked(o, d) ==
    IF o.region = "" THEN "region undefined"
    ELSE IF o.handler = <<>> /\ o.api_module = <<>> THEN "handler undefined"
    ELSE IF o.handler # <<>> /\ o.api_module # <<>> THEN "handler with api-module"
    ELSE IF o.handler = <<>> /\ o.deploy_proxy_api THEN "deploy-proxy-api needs handler"
    ELSE IF o.handler # <<>> /\ ~HasDot(o.handler) THEN "handler names no function"
    ELSE IF o.api_module # <<>> /\ HasDot(o.api_module) THEN "api-module is a file name"
    ELSE IF ~d.configDir THEN "cannot write config"
    ELSE IF ~d.packageJson THEN "no package.json"
    ELSE IF o.policies # "" /\ policyFiles(d) = {} THEN "no policy files"
    ELSE IF o.memory # <<>> /\ o.memory[1] < 128 THEN "memory too small"
    ELSE IF o.memory # <<>> /\ o.memory[1] > 3008 THEN "memory too large"
    ELSE IF o.memory # <<>> /\ o.memory[1] % 64 # 0 THEN "memory not multiple of 64"
    ELSE IF o.timeout # <<>> /\ o.timeout[1] < 1 THEN "timeout too small"
    ELSE IF o.timeout # <<>> /\ o.timeout[1] > 9000 THEN "timeout too large"
    ELSE IF o.allow_recursion /\ o.role # "" /\ isRoleArn(o.role)
         THEN "allow-recursion with role"
    ELSE IF o.s3_key # "" /\ o.use_s3_bucket = "" THEN "s3-key without use-s3-bucket"
    ELSE ""

(***************************************************************************)
(* create.js:76-136  validationError: the first failing check, "" if none. *)
(***************************************************************************)
validationError(o, d) ==
    IF o.region = "" THEN "region undefined"
    ELSE IF o.handler = <<>> /\ o.api_module = <<>> THEN "handler undefined"
    ELSE IF o.handler # <<>> /\ o.api_module # <<>> THEN "handler with api-module"
    ELSE IF o.handler = <<>> /\ o.deploy_proxy_api THEN "deploy-proxy-api needs handler"
    ELSE IF o.handler # <<>> /\ ~HasDot(o.handler) THEN "handler names no function"
    ELSE IF o.api_module # <<>> /\ HasDot(o.api_module) THEN "api-module is a file name"
    ELSE IF ~d.configDir THEN "cannot write config"
    ELSE IF d.configFile # <<>> THEN "config exists"
    ELSE IF ~d.packageJson THEN "no package.json"
    ELSE IF o.policies # "" /\ policyFiles(d) = {} THEN "no policy files"
    ELSE IF o.memory # <<>> /\ o.memory[1] < 128 THEN "memory too small"
    ELSE IF o.memory # <<>> /\ o.memory[1] > 3008 THEN "memory too large"
    ELSE IF o.memory # <<>> /\ o.memory[1] % 64 # 0 THEN "memory not multiple of 64"
    ELSE IF o.timeout # <<>> /\ o.timeout[1] < 1 THEN "timeout too small"
    ELSE IF o.timeout # <<>> /\ o.timeout[1] > 9000 THEN "timeout too large"
    ELSE IF o.allow_recursion /\ o.role # "" /\ isRoleArn(o.role)
         THEN "allow-recursion with role"
    ELSE IF o.s3_key # "" /\ o.use_s3_bucket = "" THEN "s3-key without use-s3-bucket"
    ELSE ""

(***************************************************************************)
(* Remote and local operations the pipeline awaits.                        *)
(***************************************************************************)
FunctionNameOfPackage == "fn"

\* create.js:313  functionName + '-role'
CreatedRoleName(name) == IF name = "fn" THEN "fn-role" ELSE "role"

\* a predicate that accepts every error
isRetryableAlways(code) == TRUE

\* a predicate that tests for the wrong code
isRetryableConflict(code) == code = "ResourceConflictException"

\* create.js:177-179  the predicate handed to the retry wrapper
isRetryable(code) == code = "InvalidParameterValueException"

\* the classification codes a failed createFunction can carry
CreateFunctionErrors == {"InvalidParameterValueException", "ResourceConflictException"}

\* oh-no-i-insist, as create.js:157-182 uses it: after a failure the operation
\* is invoked again when attempts remain and the predicate accepts the error
retryAgain(left, code) == left > 1 /\ isRetryable(code)

\* util/mark-alias: create the alias or repoint it (upsert)
markAlias(aliases, target, name) ==
    {a \in aliases : a[1] # name} \cup {<<name, target>>}

\* create.js:188  the version reference the alias 'latest' is bound to
LatestAliasTarget(lambdaData) == "$LATEST"

\* the user label bound to the unpublished head instead of the new version
VersionAliasTargetHead(lambdaData) == "$LATEST"

\* create.js:191  the version reference the user label is bound to
VersionAliasTarget(lambdaData) == lambdaData.Version

\* the user label bound whether or not one was requested
bindsUserLabelAlways(o) == TRUE

\* create.js:190  if (options.version): the user label is bound when requested
bindsUserLabel(o) == o.version # ""

\* create.js:201  options.version || 'latest'
apiAlias(o) == IF o.version # "" THEN o.version ELSE "latest"

Reject(reason) == pc' = "rejected" /\ error' = reason

Settle(call) == inflight' = inflight \ {call}

\* the descriptor carrying the whole API metadata of the run
savedConfigWholeApi(o, role, meta) ==
    [lambda |-> [role |-> role.RoleName, name |-> meta.FunctionName,
                 region |-> o.region, sharedRole |-> o.role # ""],
     api |-> meta.api]

(***************************************************************************)
(* create.js:254-275  saveConfig: the descriptor written to configFile.    *)
(***************************************************************************)
savedConfig(o, role, meta) ==
    [lambda |-> [role |-> role.RoleName, name |-> meta.FunctionName,
                 region |-> o.region, sharedRole |-> o.role # ""],
     api |-> IF meta.api # <<>>
             THEN <<[id |-> meta.api[1].id, module |-> meta.api[1].module]>>
             ELSE <<>>]

(***************************************************************************)
(* create.js:278-296  formatResult, and 328-336 the archive field cleanup  *)
(* adds when keep is set.                                                  *)
(***************************************************************************)
formatResult(o, role, meta, key) ==
    [lambda |-> [role |-> role.RoleName, name |-> meta.FunctionName,
                 region |-> o.region, sharedRole |-> o.role # ""],
     api |-> meta.api,
     s3key |-> key,
     archive |-> ""]

\* cleanup removing the staging directory and the archive whatever keep says
cleanupRemovesAlways(o) == TRUE

\* create.js:329  whether cleanup removes the staging directory and archive
cleanupRemoves(o) == ~o.keep

\* create.js:328-336  cleanup: the disk and the result it leaves
cleanupDisk(o, d) ==
    IF cleanupRemoves(o) THEN [d EXCEPT !.workingDir = FALSE, !.archive = FALSE] ELSE d

cleanupResult(o, res, archive) ==
    IF cleanupRemoves(o) THEN res ELSE [res EXCEPT !.archive = archive]

(***************************************************************************)
(* Initial state: create has been called, nothing has run yet.             *)
(***************************************************************************)
InitCreate ==
    /\ \E sc \in Scenarios : options = OptionsOf(sc) /\ disk = DiskOf(sc)
    /\ pc = "start"
    /\ error = ""
    /\ result = <<>>
    /\ roleMetadata = <<>>
    /\ s3Key = ""
    /\ packageArchive = ""
    /\ functionName = ""
    /\ workingDir = ""
    /\ lambdaMetadata = <<>>
    /\ maxTimes = 0
    /\ apiModule = ""
    /\ inflight = {}
    /\ events = <<>>
    /\ cloud = [roles |-> {}, policies |-> {}, functions |-> {}, aliases |-> {},
                apis |-> {}]

\* the chain started without the validation result being looked at
CreateStartUnchecked ==
    /\ pc = "start"
    /\ pc' = "initEnvVars"
    /\ events' = events \o <<Ev("initEnvVars", "issue", <<>>)>>
    /\ UNCHANGED <<s3Vars, svVars, xpVars>>
    /\ UNCHANGED <<options, disk, error, result, roleMetadata, s3Key,
                   packageArchive, functionName, workingDir, lambdaMetadata,
                   maxTimes, apiModule, inflight, cloud>>

(***************************************************************************)
(* create.js:338-343  validation, then the first awaited operation.        *)
(***************************************************************************)
CreateStart ==
    /\ pc = "start"
    /\ IF validationError(options, disk) # ""
       THEN Reject(validationError(options, disk)) /\ UNCHANGED events
       ELSE /\ pc' = "initEnvVars"
            /\ events' = events \o <<Ev("initEnvVars", "issue", <<>>)>>
            /\ UNCHANGED error
    /\ UNCHANGED <<s3Vars, svVars, xpVars>>
    /\ UNCHANGED <<options, disk, result, roleMetadata, s3Key, packageArchive,
                   functionName, workingDir, lambdaMetadata, maxTimes, apiModule,
                   inflight, cloud>>

\* create.js:342-344  initEnvVarsFromOptions settles; getPackageInfo starts
InitEnvVarsDone ==
    /\ pc = "initEnvVars"
    /\ \E ok \in BOOLEAN :
         IF ok
         THEN /\ pc' = "getPackageInfo"
              /\ events' = events \o <<Ev("initEnvVars", "ok", <<>>),
                                       Ev("getPackageInfo", "issue", <<>>)>>
              /\ UNCHANGED error
         ELSE /\ Reject("invalid environment options")
              /\ events' = events \o <<Ev("initEnvVars", "fail", <<>>)>>
    /\ UNCHANGED <<s3Vars, svVars, xpVars>>
    /\ UNCHANGED <<options, disk, result, roleMetadata, s3Key, packageArchive,
                   functionName, workingDir, lambdaMetadata, maxTimes, apiModule,
                   inflight, cloud>>

\* create.js:139-153, 344-349  package.json read; getOwnerInfo issued
GetPackageInfoDone ==
    /\ pc = "getPackageInfo"
    /\ \E outcome \in {"ok", "no name", "unreadable"} :
         IF outcome = "ok"
         THEN /\ pc' = "getOwnerInfo"
              /\ functionName' = FunctionNameOfPackage
              /\ inflight' = inflight \cup {"getOwnerInfo"}
              /\ events' = events \o <<Ev("getPackageInfo", "ok", <<>>),
                                       Ev("getOwnerInfo", "issue", <<>>)>>
              /\ UNCHANGED error
         ELSE /\ Reject(outcome)
              /\ events' = events \o <<Ev("getPackageInfo", "fail", <<>>)>>
              /\ UNCHANGED <<functionName, inflight>>
    /\ UNCHANGED <<s3Vars, svVars, xpVars>>
    /\ UNCHANGED <<options, disk, result, roleMetadata, s3Key, packageArchive,
                   workingDir, lambdaMetadata, maxTimes, apiModule, cloud>>

\* create.js:349-354  owner info received; mkdtemp starts
GetOwnerInfoDone ==
    /\ pc = "getOwnerInfo"
    /\ Settle("getOwnerInfo")
    /\ \E ok \in BOOLEAN :
         IF ok
         THEN /\ pc' = "mkdtemp"
              /\ events' = events \o <<Ev("getOwnerInfo", "ok", <<>>),
                                       Ev("mkdtemp", "issue", <<>>)>>
              /\ UNCHANGED error
         ELSE /\ Reject("getOwnerInfo failed")
              /\ events' = events \o <<Ev("getOwnerInfo", "fail", <<>>)>>
    /\ UNCHANGED <<s3Vars, svVars, xpVars>>
    /\ UNCHANGED <<options, disk, result, roleMetadata, s3Key, packageArchive,
                   functionName, workingDir, lambdaMetadata, maxTimes, apiModule,
                   cloud>>

\* create.js:354-356  staging directory created; collectFiles starts
MkdtempDone ==
    /\ pc = "mkdtemp"
    /\ \E ok \in BOOLEAN :
         IF ok
         THEN /\ pc' = "collectFiles"
              /\ workingDir' = "/tmp/staging"
              /\ disk' = [disk EXCEPT !.workingDir = TRUE]
              /\ events' = events \o <<Ev("mkdtemp", "ok", <<>>),
                                       Ev("collectFiles", "issue", <<>>)>>
              /\ UNCHANGED error
         ELSE /\ Reject("mkdtemp failed")
              /\ events' = events \o <<Ev("mkdtemp", "fail", <<>>)>>
              /\ UNCHANGED <<workingDir, disk>>
    /\ UNCHANGED <<s3Vars, svVars, xpVars>>
    /\ UNCHANGED <<options, result, roleMetadata, s3Key, packageArchive,
                   functionName, lambdaMetadata, maxTimes, apiModule, inflight,
                   cloud>>

\* A packaging step settles and the next one starts (create.js:356-368).
PackagingStep(this, next) ==
    /\ pc = this
    /\ \E ok \in BOOLEAN :
         IF ok
         THEN /\ pc' = next
              /\ events' = events \o <<Ev(this, "ok", <<>>), Ev(next, "issue", <<>>)>>
              /\ UNCHANGED error
         ELSE /\ Reject("packaging failed")
              /\ events' = events \o <<Ev(this, "fail", <<>>)>>
    /\ UNCHANGED <<s3Vars, svVars, xpVars>>
    /\ UNCHANGED <<options, disk, result, roleMetadata, s3Key, packageArchive,
                   functionName, workingDir, lambdaMetadata, maxTimes, apiModule,
                   inflight, cloud>>

\* create.js:356-360
CollectFilesDone == PackagingStep("collectFiles", "validatePackage")

\* create.js:357-364
ValidatePackageDone == PackagingStep("validatePackage", "cleanUpPackage")

\* create.js:361-368
CleanUpPackageDone == PackagingStep("cleanUpPackage", "zipdir")

(***************************************************************************)
(* What the chain awaits next: the operation, the events of issuing it     *)
(* and the remote calls this puts in flight.                               *)
(***************************************************************************)
\* create.js:390  lambdaCode uploads to S3 when use-s3-bucket is given
lambdaCodeStart(o) ==
    [pc |-> "lambdaCode",
     evs |-> <<Ev("lambdaCode", "issue", <<>>)>>,
     calls |-> IF o.use_s3_bucket # "" THEN {"lambdaCode"} ELSE {}]

\* the policy calls issued without the chain waiting for them
addExtraPoliciesNotAwaited(d) ==
    [pc |-> lambdaCodeStart(options).pc,
     evs |-> [i \in 1..d.policyFiles |-> Ev("addPolicy", "issue", <<PolicyFileNames[i]>>)]
             \o lambdaCodeStart(options).evs,
     calls |-> policyFiles(d) \cup lambdaCodeStart(options).calls]

\* create.js:320-325  addExtraPolicies: Promise.all over one addPolicy per file
addExtraPolicies(d) ==
    [pc |-> "addExtraPolicies",
     evs |-> [i \in 1..d.policyFiles |-> Ev("addPolicy", "issue", <<PolicyFileNames[i]>>)],
     calls |-> policyFiles(d)]

\* create.js:385-390
afterLogPolicy(o, d) ==
    IF o.policies # "" THEN addExtraPolicies(d) ELSE lambdaCodeStart(o)

\* the logging policy attached whatever the role option says
afterRoleLoadedAlwaysLogs(o, d) ==
    [pc |-> "putRolePolicy",
     evs |-> <<Ev("putRolePolicy", "issue", <<"log-writer">>)>>,
     calls |-> {"putRolePolicy"}]

\* create.js:376-384  the logging policy is attached when no role option was given
afterRoleLoaded(o, d) ==
    IF o.role = ""
    THEN [pc |-> "putRolePolicy",
          evs |-> <<Ev("putRolePolicy", "issue", <<"log-writer">>)>>,
          calls |-> {"putRolePolicy"}]
    ELSE afterLogPolicy(o, d)

\* every role reference looked up, a role ARN included
loadRoleLookup(o) == IF o.role # "" THEN "getRole" ELSE "createRole"

\* create.js:299-317  loadRole: which call, if any, acquires the role
loadRole(o) ==
    IF o.role # ""
    THEN IF isRoleArn(o.role) THEN "arn" ELSE "getRole"
    ELSE "createRole"

\* the role metadata loadRole resolves with
loadedRole(o, name) ==
    IF o.role # ""
    THEN IF isRoleArn(o.role)
         THEN [RoleName |-> o.role, Arn |-> o.role]
         ELSE [RoleName |-> o.role, Arn |-> RoleArn]
    ELSE [RoleName |-> CreatedRoleName(name), Arn |-> "arn:aws:iam::1:role/fn-role"]

\* create.js:365-375  archive written; the role is loaded
ZipdirDone ==
    /\ pc = "zipdir"
    /\ \E ok \in BOOLEAN :
         IF ~ok
         THEN /\ Reject("packaging failed")
              /\ events' = events \o <<Ev("zipdir", "fail", <<>>)>>
              /\ UNCHANGED <<packageArchive, disk, roleMetadata, inflight>>
         ELSE /\ packageArchive' = "/tmp/staging.zip"
              /\ disk' = [disk EXCEPT !.archive = TRUE]
              /\ UNCHANGED error
              /\ IF loadRole(options) = "arn"
                 THEN LET next == afterRoleLoaded(options, disk) IN
                      /\ roleMetadata' = <<loadedRole(options, functionName)>>
                      /\ pc' = next.pc
                      /\ inflight' = inflight \cup next.calls
                      /\ events' = events \o <<Ev("zipdir", "ok", <<>>),
                                               Ev("loadRole", "issue", <<"arn">>),
                                               Ev("loadRole", "ok", <<"arn">>)>>
                                          \o next.evs
                 ELSE /\ pc' = "loadRole"
                      /\ inflight' = inflight \cup {loadRole(options)}
                      /\ events' = events \o <<Ev("zipdir", "ok", <<>>),
                                               Ev("loadRole", "issue", <<loadRole(options)>>)>>
                      /\ UNCHANGED roleMetadata
    /\ UNCHANGED <<s3Vars, svVars, xpVars>>
    /\ UNCHANGED <<options, result, s3Key, functionName, workingDir,
                   lambdaMetadata, maxTimes, apiModule, cloud>>

\* a failed role call issued again instead of failing the run
LoadRoleDoneRetried ==
    /\ pc = "loadRole"
    /\ \E ok \in BOOLEAN :
         IF ok
         THEN LET next == afterRoleLoaded(options, disk)
                  role == loadedRole(options, functionName) IN
              /\ roleMetadata' = <<role>>
              /\ cloud' = IF loadRole(options) = "createRole"
                          THEN [cloud EXCEPT !.roles = @ \cup {role.RoleName}]
                          ELSE cloud
              /\ pc' = next.pc
              /\ inflight' = (inflight \ {loadRole(options)}) \cup next.calls
              /\ events' = events \o <<Ev("loadRole", "ok", <<loadRole(options)>>)>>
                                  \o next.evs
              /\ UNCHANGED error
         ELSE /\ Len(events) < 40
              /\ events' = events \o <<Ev("loadRole", "fail", <<loadRole(options)>>),
                                       Ev("loadRole", "issue", <<loadRole(options)>>)>>
              /\ UNCHANGED <<pc, error, inflight, roleMetadata, cloud>>
    /\ UNCHANGED <<s3Vars, svVars, xpVars>>
    /\ UNCHANGED <<options, disk, result, s3Key, packageArchive, functionName,
                   workingDir, lambdaMetadata, maxTimes, apiModule>>

\* create.js:310-315, 372-389  getRole or createRole settles
LoadRoleDone ==
    /\ pc = "loadRole"
    /\ \E ok \in BOOLEAN :
         IF ok
         THEN LET next == afterRoleLoaded(options, disk)
                  role == loadedRole(options, functionName) IN
              /\ roleMetadata' = <<role>>
              /\ cloud' = IF loadRole(options) = "createRole"
                          THEN [cloud EXCEPT !.roles = @ \cup {role.RoleName}]
                          ELSE cloud
              /\ pc' = next.pc
              /\ inflight' = (inflight \ {loadRole(options)}) \cup next.calls
              /\ events' = events \o <<Ev("loadRole", "ok", <<loadRole(options)>>)>>
                                  \o next.evs
              /\ UNCHANGED error
         ELSE /\ Reject("role not available")
              /\ inflight' = inflight \ {loadRole(options)}
              /\ events' = events \o <<Ev("loadRole", "fail", <<loadRole(options)>>)>>
              /\ UNCHANGED <<roleMetadata, cloud>>
    /\ UNCHANGED <<s3Vars, svVars, xpVars>>
    /\ UNCHANGED <<options, disk, result, s3Key, packageArchive, functionName,
                   workingDir, lambdaMetadata, maxTimes, apiModule>>

\* create.js:376-389  the logging policy call settles
PutRolePolicyDone ==
    /\ pc = "putRolePolicy"
    /\ \E ok \in BOOLEAN :
         IF ok
         THEN LET next == afterLogPolicy(options, disk) IN
              /\ cloud' = [cloud EXCEPT !.policies = @ \cup {"log-writer"}]
              /\ pc' = next.pc
              /\ inflight' = (inflight \ {"putRolePolicy"}) \cup next.calls
              /\ events' = events \o <<Ev("putRolePolicy", "ok", <<"log-writer">>)>>
                                  \o next.evs
              /\ UNCHANGED error
         ELSE /\ Reject("putRolePolicy failed")
              /\ inflight' = inflight \ {"putRolePolicy"}
              /\ events' = events \o <<Ev("putRolePolicy", "fail", <<"log-writer">>)>>
              /\ UNCHANGED cloud
    /\ UNCHANGED <<s3Vars, svVars, xpVars>>
    /\ UNCHANGED <<options, disk, result, roleMetadata, s3Key, packageArchive,
                   functionName, workingDir, lambdaMetadata, maxTimes, apiModule>>

\* create.js:320-325, 385-390  one addPolicy call of the Promise.all settles:
\* the first failure rejects the chain, the last success lets it continue, and
\* calls still in flight after a rejection settle on their own.
AddPolicyDone ==
    \E file \in inflight \cap policyFiles(disk) :
      /\ pc \in {"addExtraPolicies", "rejected"}
      /\ \E ok \in BOOLEAN :
           /\ cloud' = IF ok THEN [cloud EXCEPT !.policies = @ \cup {file}] ELSE cloud
           /\ IF pc = "addExtraPolicies" /\ ~ok
              THEN /\ Reject("addPolicy failed")
                   /\ inflight' = inflight \ {file}
                   /\ events' = events \o <<Ev("addPolicy", "fail", <<file>>)>>
              ELSE IF pc = "addExtraPolicies" /\ inflight = {file}
              THEN LET next == lambdaCodeStart(options) IN
                   /\ pc' = next.pc
                   /\ inflight' = (inflight \ {file}) \cup next.calls
                   /\ events' = events \o <<Ev("addPolicy", "ok", <<file>>)>> \o next.evs
                   /\ UNCHANGED error
              ELSE /\ inflight' = inflight \ {file}
                   /\ events' = events \o
                        <<Ev("addPolicy", IF ok THEN "ok" ELSE "fail", <<file>>)>>
                   /\ UNCHANGED <<pc, error>>
      /\ UNCHANGED <<s3Vars, svVars, xpVars>>
      /\ UNCHANGED <<options, disk, result, roleMetadata, s3Key, packageArchive,
                     functionName, workingDir, lambdaMetadata, maxTimes, apiModule>>

\* create.js:390-394, 156-176  code located; first createFunction attempt
LambdaCodeDone ==
    /\ pc = "lambdaCode"
    /\ \E ok \in BOOLEAN :
         IF ok
         THEN /\ s3Key' = IF options.use_s3_bucket = "" THEN ""
                          ELSE IF options.s3_key # "" THEN options.s3_key
                          ELSE "generated.zip"
              /\ maxTimes' = awsRetries(options)
              /\ pc' = "createFunction"
              /\ inflight' = (inflight \ {"lambdaCode"}) \cup {"createFunction"}
              /\ events' = events \o <<Ev("lambdaCode", "ok", <<>>),
                                       Ev("createFunction", "issue",
                                          <<roleMetadata[1].Arn>>)>>
              /\ UNCHANGED error
         ELSE /\ Reject("code not available")
              /\ inflight' = inflight \ {"lambdaCode"}
              /\ events' = events \o <<Ev("lambdaCode", "fail", <<>>)>>
              /\ UNCHANGED <<s3Key, maxTimes>>
    /\ UNCHANGED <<s3Vars, svVars, xpVars>>
    /\ UNCHANGED <<options, disk, result, roleMetadata, packageArchive,
                   functionName, workingDir, lambdaMetadata, apiModule, cloud>>

\* create.js:156-196  a createFunction attempt settles: on success the alias
\* 'latest' is bound next; on failure the retry wrapper decides
CreateFunctionDone ==
    /\ pc = "createFunction"
    /\ \E outcome \in {"ok"} \cup CreateFunctionErrors :
         IF outcome = "ok"
         THEN LET lambdaData == [FunctionName |-> functionName, Version |-> "1",
                                 api |-> <<>>] IN
              /\ lambdaMetadata' = <<lambdaData>>
              /\ cloud' = [cloud EXCEPT !.functions = @ \cup {functionName}]
              /\ pc' = "markAliasLatest"
              /\ events' = events \o
                   <<Ev("createFunction", "ok", <<lambdaData.Version>>),
                     Ev("markAlias", "issue", <<"latest", LatestAliasTarget(lambdaData)>>)>>
              /\ UNCHANGED <<error, maxTimes>>
         ELSE IF retryAgain(maxTimes, outcome)
         THEN /\ pc' = "retryDelay"
              /\ maxTimes' = maxTimes - 1
              /\ events' = events \o <<Ev("createFunction", "fail", <<outcome>>),
                                       Ev("onRetry", "notify", <<>>)>>
              /\ UNCHANGED <<error, lambdaMetadata, cloud>>
         ELSE /\ Reject(outcome)
              /\ events' = events \o <<Ev("createFunction", "fail", <<outcome>>)>>
              /\ UNCHANGED <<maxTimes, lambdaMetadata, cloud>>
    /\ inflight' = IF pc' = "markAliasLatest"
                   THEN (inflight \ {"createFunction"}) \cup {"markAlias"}
                   ELSE inflight \ {"createFunction"}
    /\ UNCHANGED <<s3Vars, svVars, xpVars>>
    /\ UNCHANGED <<options, disk, result, roleMetadata, s3Key, packageArchive,
                   functionName, workingDir, apiModule>>

\* create.js:175  the fixed delay elapsed: the operation is invoked again
RetryDelayDone ==
    /\ pc = "retryDelay"
    /\ pc' = "createFunction"
    /\ inflight' = inflight \cup {"createFunction"}
    /\ events' = events \o <<Ev("createFunction", "issue", <<roleMetadata[1].Arn>>)>>
    /\ UNCHANGED <<s3Vars, svVars, xpVars>>
    /\ UNCHANGED <<options, disk, error, result, roleMetadata, s3Key,
                   packageArchive, functionName, workingDir, lambdaMetadata,
                   maxTimes, apiModule, cloud>>

(***************************************************************************)
(* create.js:396-405  after the aliases: expose the API, or persist.       *)
(* `done` is the event of the call that just settled, `call` its name.     *)
(***************************************************************************)
saveConfigStart ==
    [pc |-> "saveConfig", evs |-> <<Ev("saveConfig", "issue", <<>>)>>, calls |-> {}]

\* what require() of the api module can return (create.js:203-214)
ApiModuleShapes == {"throws", "no apiConfig", "plain", "with postDeploy"}

ThenExposeApi(done, call) ==
    IF options.api_module # <<>>
    THEN \E shape \in ApiModuleShapes :
           /\ apiModule' = shape
           /\ IF shape \in {"throws", "no apiConfig"}
              THEN /\ Reject("api module: " \o shape)
                   /\ inflight' = inflight \ {call}
                   /\ events' = events \o <<done>>
              ELSE /\ pc' = "createRestApi"
                   /\ inflight' = (inflight \ {call}) \cup {"createRestApi"}
                   /\ events' = events \o <<done, Ev("createRestApi", "issue", <<>>)>>
                   /\ UNCHANGED error
    ELSE IF options.deploy_proxy_api
    THEN /\ pc' = "deployProxyApi"
         /\ inflight' = (inflight \ {call}) \cup {"deployProxyApi"}
         /\ events' = events \o <<done, Ev("deployProxyApi", "issue", <<>>)>>
         /\ UNCHANGED <<error, apiModule>>
    ELSE /\ pc' = saveConfigStart.pc
         /\ inflight' = inflight \ {call}
         /\ events' = events \o <<done>> \o saveConfigStart.evs
         /\ UNCHANGED <<error, apiModule>>

\* create.js:186-194  'latest' settled; the user label is bound if requested
MarkAliasLatestDone ==
    /\ pc = "markAliasLatest"
    /\ LET lambdaData == lambdaMetadata[1]
           target == LatestAliasTarget(lambdaData) IN
       \E ok \in BOOLEAN :
         IF ~ok
         THEN /\ Reject("markAlias failed")
              /\ inflight' = inflight \ {"markAlias"}
              /\ events' = events \o <<Ev("markAlias", "fail", <<"latest", target>>)>>
              /\ UNCHANGED <<cloud, apiModule>>
         ELSE /\ cloud' = [cloud EXCEPT !.aliases = markAlias(@, target, "latest")]
              /\ IF bindsUserLabel(options)
                 THEN /\ pc' = "markAliasVersion"
                      /\ inflight' = inflight
                      /\ events' = events \o
                           <<Ev("markAlias", "ok", <<"latest", target>>),
                             Ev("markAlias", "issue",
                                <<options.version, VersionAliasTarget(lambdaData)>>)>>
                      /\ UNCHANGED <<error, apiModule>>
                 ELSE ThenExposeApi(Ev("markAlias", "ok", <<"latest", target>>),
                                    "markAlias")
    /\ UNCHANGED <<s3Vars, svVars, xpVars>>
    /\ UNCHANGED <<options, disk, result, roleMetadata, s3Key, packageArchive,
                   functionName, workingDir, lambdaMetadata, maxTimes>>

\* create.js:190-195  the user label settled
MarkAliasVersionDone ==
    /\ pc = "markAliasVersion"
    /\ LET lambdaData == lambdaMetadata[1]
           target == VersionAliasTarget(lambdaData) IN
       \E ok \in BOOLEAN :
         IF ~ok
         THEN /\ Reject("markAlias failed")
              /\ inflight' = inflight \ {"markAlias"}
              /\ events' = events \o
                   <<Ev("markAlias", "fail", <<options.version, target>>)>>
              /\ UNCHANGED <<cloud, apiModule>>
         ELSE /\ cloud' = [cloud EXCEPT !.aliases = markAlias(@, target, options.version)]
              /\ ThenExposeApi(Ev("markAlias", "ok", <<options.version, target>>),
                               "markAlias")
    /\ UNCHANGED <<s3Vars, svVars, xpVars>>
    /\ UNCHANGED <<options, disk, result, roleMetadata, s3Key, packageArchive,
                   functionName, workingDir, lambdaMetadata, maxTimes>>

\* create.js:216-226  gateway created; the route tree is rebuilt
CreateRestApiDone ==
    /\ pc = "createRestApi"
    /\ \E ok \in BOOLEAN :
         IF ok
         THEN /\ lambdaMetadata' =
                   <<[lambdaMetadata[1] EXCEPT !.api =
                        <<[id |-> "api-1", module |-> options.api_module,
                           url |-> <<"api-1", options.region, apiAlias(options)>>,
                           deploy |-> ""]>>]>>
              /\ cloud' = [cloud EXCEPT !.apis = @ \cup {"api-1"}]
              /\ pc' = "rebuildWebApi"
              /\ inflight' = (inflight \ {"createRestApi"}) \cup {"rebuildWebApi"}
              /\ events' = events \o <<Ev("createRestApi", "ok", <<>>),
                                       Ev("rebuildWebApi", "issue", <<>>)>>
              /\ UNCHANGED error
         ELSE /\ Reject("createRestApi failed")
              /\ inflight' = inflight \ {"createRestApi"}
              /\ events' = events \o <<Ev("createRestApi", "fail", <<>>)>>
              /\ UNCHANGED <<lambdaMetadata, cloud>>
    /\ UNCHANGED <<s3Vars, svVars, xpVars>>
    /\ UNCHANGED <<options, disk, result, roleMetadata, s3Key, packageArchive,
                   functionName, workingDir, maxTimes, apiModule>>

\* create.js:227-244  routes rebuilt; the post-deploy hook runs if there is one
RebuildWebApiDone ==
    /\ pc = "rebuildWebApi"
    /\ \E ok \in BOOLEAN :
         IF ~ok
         THEN /\ Reject("rebuildWebApi failed")
              /\ inflight' = inflight \ {"rebuildWebApi"}
              /\ events' = events \o <<Ev("rebuildWebApi", "fail", <<>>)>>
         ELSE IF apiModule = "with postDeploy"
         THEN /\ pc' = "postDeploy"
              /\ inflight' = (inflight \ {"rebuildWebApi"}) \cup {"postDeploy"}
              /\ events' = events \o <<Ev("rebuildWebApi", "ok", <<>>),
                                       Ev("postDeploy", "issue", <<>>)>>
              /\ UNCHANGED error
         ELSE /\ pc' = saveConfigStart.pc
              /\ inflight' = inflight \ {"rebuildWebApi"}
              /\ events' = events \o <<Ev("rebuildWebApi", "ok", <<>>)>>
                                  \o saveConfigStart.evs
              /\ UNCHANGED error
    /\ UNCHANGED <<s3Vars, svVars, xpVars>>
    /\ UNCHANGED <<options, disk, result, roleMetadata, s3Key, packageArchive,
                   functionName, workingDir, lambdaMetadata, maxTimes, apiModule,
                   cloud>>

\* create.js:245-250, 405  the hook settled; its result, if any, is recorded
PostDeployDone ==
    /\ pc = "postDeploy"
    /\ inflight' = inflight \ {"postDeploy"}
    /\ \E outcome \in {"result", "nothing", "fail"} :
         IF outcome = "fail"
         THEN /\ Reject("postDeploy failed")
              /\ events' = events \o <<Ev("postDeploy", "fail", <<>>)>>
              /\ UNCHANGED lambdaMetadata
         ELSE /\ lambdaMetadata' =
                   IF outcome = "result"
                   THEN <<[lambdaMetadata[1] EXCEPT !.api =
                             <<[lambdaMetadata[1].api[1] EXCEPT !.deploy = "hook result"]>>]>>
                   ELSE lambdaMetadata
              /\ pc' = saveConfigStart.pc
              /\ events' = events \o <<Ev("postDeploy", "ok", <<outcome>>)>>
                                  \o saveConfigStart.evs
              /\ UNCHANGED error
    /\ UNCHANGED <<s3Vars, svVars, xpVars>>
    /\ UNCHANGED <<options, disk, result, roleMetadata, s3Key, packageArchive,
                   functionName, workingDir, maxTimes, apiModule, cloud>>

\* create.js:399-405  aws/deploy-proxy-api settled
DeployProxyApiDone ==
    /\ pc = "deployProxyApi"
    /\ inflight' = inflight \ {"deployProxyApi"}
    /\ \E ok \in BOOLEAN :
         IF ok
         THEN /\ lambdaMetadata' =
                   <<[lambdaMetadata[1] EXCEPT !.api =
                        <<[id |-> "api-1", module |-> <<>>,
                           url |-> <<"api-1", options.region, apiAlias(options)>>,
                           deploy |-> ""]>>]>>
              /\ cloud' = [cloud EXCEPT !.apis = @ \cup {"api-1"}]
              /\ pc' = saveConfigStart.pc
              /\ events' = events \o <<Ev("deployProxyApi", "ok", <<>>)>>
                                  \o saveConfigStart.evs
              /\ UNCHANGED error
         ELSE /\ Reject("deployProxyApi failed")
              /\ events' = events \o <<Ev("deployProxyApi", "fail", <<>>)>>
              /\ UNCHANGED <<lambdaMetadata, cloud>>
    /\ UNCHANGED <<s3Vars, svVars, xpVars>>
    /\ UNCHANGED <<options, disk, result, roleMetadata, s3Key, packageArchive,
                   functionName, workingDir, maxTimes, apiModule>>

\* create.js:269-275, 405-407  descriptor written; formatResult and cleanup run
SaveConfigDone ==
    /\ pc = "saveConfig"
    /\ \E ok \in BOOLEAN :
         IF ok
         THEN LET written == [disk EXCEPT !.configFile =
                                <<savedConfig(options, roleMetadata[1], lambdaMetadata[1])>>]
                  formatted == formatResult(options, roleMetadata[1],
                                            lambdaMetadata[1], s3Key) IN
              /\ disk' = cleanupDisk(options, written)
              /\ result' = <<cleanupResult(options, formatted, packageArchive)>>
              /\ pc' = "resolved"
              /\ events' = events \o <<Ev("saveConfig", "ok", <<>>),
                                       Ev("cleanup", "ok", <<>>)>>
              /\ UNCHANGED error
         ELSE /\ Reject("descriptor not written")
              /\ events' = events \o <<Ev("saveConfig", "fail", <<>>)>>
              /\ UNCHANGED <<disk, result>>
    /\ UNCHANGED <<s3Vars, svVars, xpVars>>
    /\ UNCHANGED <<options, roleMetadata, s3Key, packageArchive, functionName,
                   workingDir, lambdaMetadata, maxTimes, apiModule, inflight, cloud>>

NextCreate ==
    \/ CreateStart
    \/ InitEnvVarsDone
    \/ GetPackageInfoDone
    \/ GetOwnerInfoDone
    \/ MkdtempDone
    \/ CollectFilesDone
    \/ ValidatePackageDone
    \/ CleanUpPackageDone
    \/ ZipdirDone
    \/ LoadRoleDone
    \/ PutRolePolicyDone
    \/ AddPolicyDone
    \/ LambdaCodeDone
    \/ CreateFunctionDone
    \/ RetryDelayDone
    \/ MarkAliasLatestDone
    \/ MarkAliasVersionDone
    \/ CreateRestApiDone
    \/ RebuildWebApiDone
    \/ PostDeployDone
    \/ DeployProxyApiDone
    \/ SaveConfigDone

(***************************************************************************)
(* add-storage-event-source (src/unnamed/part_000).                        *)
(* Two invocations against the same bucket, each its own process.          *)
(***************************************************************************)
\* largest number of subscriptions the bucket holds before the command runs
MaxExisting == 2

Runs == {1, 2}

\* the function each invocation's descriptor names
FunctionArns == <<"arn:aws:lambda:fn-1", "arn:aws:lambda:fn-2">>

OtherArns == <<"arn:other-1", "arn:other-2", "arn:other-3", "arn:other-4">>

\* subscriptions registered by other tools
ExistingRules(n) ==
    [i \in 1..n |-> [LambdaFunctionArn |-> OtherArns[i],
                     Events |-> <<"s3:ObjectRemoved:*">>,
                     Filter |-> <<>>]]

\* what getBucketNotificationConfiguration can answer: nothing, or an object
\* whose LambdaFunctionConfigurations and TopicConfigurations may be absent
BucketConfigs ==
    {<<>>} \cup
    {<<[LambdaFunctionConfigurations |-> l, TopicConfigurations |-> t]>> :
        l \in {<<>>} \cup {<<ExistingRules(n)>> : n \in 0..MaxExisting},
        t \in {<<>>, <<<<"topic-subscription">>>>}}

S3Options ==
    [bucket : {"", "uploads"},
     prefix : {"", "infiles/"},
     suffix : {"", ".jpg"},
     events : {<<>>, <<"s3:ObjectCreated:Put", ",", "s3:ObjectRemoved:*">>}]

\* String.prototype.split(','): the pieces between the commas
RECURSIVE split(_)
split(str) ==
    IF str = <<>> THEN <<>>
    ELSE IF Head(str) = "," THEN split(Tail(str))
    ELSE <<Head(str)>> \o split(Tail(str))

\* part_000:70-82  the filter rules of the options given
filterRules(o) ==
    (IF o.prefix # "" THEN <<[Name |-> "prefix", Value |-> o.prefix]>> ELSE <<>>)
    \o (IF o.suffix # "" THEN <<[Name |-> "suffix", Value |-> o.suffix]>> ELSE <<>>)

\* the new subscription with a Filter even when no filter rule was given
eventConfigAlwaysFiltered(o, arn) ==
    [LambdaFunctionArn |-> arn,
     Events |-> IF o.events # <<>> THEN split(o.events) ELSE <<"s3:ObjectCreated:*">>,
     Filter |-> <<[Key |-> [FilterRules |-> filterRules(o)]]>>]

\* part_000:64-89  eventConfig, the new subscription
eventConfig(o, arn) ==
    [LambdaFunctionArn |-> arn,
     Events |-> IF o.events # <<>> THEN split(o.events) ELSE <<"s3:ObjectCreated:*">>,
     Filter |-> IF Len(filterRules(o)) # 0
                THEN <<[Key |-> [FilterRules |-> filterRules(o)]]>>
                ELSE <<>>]

\* the new rule written alone, the fetched subscriptions dropped
mergedConfigOverwrite(currentConfig, rule) ==
    LET merged == IF currentConfig # <<>> THEN currentConfig[1]
                  ELSE [LambdaFunctionConfigurations |-> <<>>,
                        TopicConfigurations |-> <<>>]
    IN [merged EXCEPT !.LambdaFunctionConfigurations = <<<<rule>>>>]

\* the new rule put in front of the fetched subscriptions
mergedConfigPrepend(currentConfig, rule) ==
    LET merged == IF currentConfig # <<>> THEN currentConfig[1]
                  ELSE [LambdaFunctionConfigurations |-> <<>>,
                        TopicConfigurations |-> <<>>]
        list == IF merged.LambdaFunctionConfigurations = <<>> THEN <<>>
                ELSE merged.LambdaFunctionConfigurations[1]
    IN [merged EXCEPT !.LambdaFunctionConfigurations = <<<<rule>> \o list>>]

\* a missing subscription list left missing, the new rule not recorded
mergedConfigKeepAbsent(currentConfig, rule) ==
    LET merged == IF currentConfig # <<>> THEN currentConfig[1]
                  ELSE [LambdaFunctionConfigurations |-> <<>>,
                        TopicConfigurations |-> <<>>]
    IN IF merged.LambdaFunctionConfigurations = <<>> THEN merged
       ELSE [merged EXCEPT !.LambdaFunctionConfigurations =
               <<Append(merged.LambdaFunctionConfigurations[1], rule)>>]

\* part_000:94-98  the configuration written back
mergedConfig(currentConfig, rule) ==
    LET merged == IF currentConfig # <<>> THEN currentConfig[1]
                  ELSE [LambdaFunctionConfigurations |-> <<>>,
                        TopicConfigurations |-> <<>>]
        list == IF merged.LambdaFunctionConfigurations = <<>> THEN <<>>
                ELSE merged.LambdaFunctionConfigurations[1]
    IN [merged EXCEPT !.LambdaFunctionConfigurations = <<Append(list, rule)>>]

\* part_000:53-62  addInvokePermission returns what lambda.addPermission(...)
\* returns: the request object, built and never sent (no .promise(), no
\* callback); the chain goes on with it as a plain value
addInvokePermission(r) == [r EXCEPT !.permission = "request built"]

InitS3 ==
    /\ run \in [Runs -> {[pc |-> "start", options |-> o, arn |-> "",
                          currentConfig |-> <<>>, fetched |-> FALSE,
                          merged |-> <<>>, permission |-> "none", error |-> ""]
                            : o \in S3Options}]
    /\ bucketNotification \in BucketConfigs
    /\ lambdaPermissions = {}

IdleS3 ==
    /\ run = [r \in Runs |-> [pc |-> "idle"]]
    /\ bucketNotification = <<>>
    /\ lambdaPermissions = {}

S3Reject(r, reason) == run' = [run EXCEPT ![r].pc = "rejected", ![r].error = reason]

\* part_000:106-109  the bucket option is checked; the descriptor is loaded
S3Start(r) ==
    /\ run[r].pc = "start"
    /\ IF run[r].options.bucket = ""
       THEN S3Reject(r, "no bucket")
       ELSE run' = [run EXCEPT ![r].pc = "loadConfig"]
    /\ UNCHANGED <<bucketNotification, lambdaPermissions, createVars, svVars, xpVars>>

\* part_000:14-25  descriptor loaded; getFunctionConfiguration issued
S3LoadConfigDone(r) ==
    /\ run[r].pc = "loadConfig"
    /\ \E ok \in BOOLEAN :
         IF ok THEN run' = [run EXCEPT ![r].pc = "getLambda"]
         ELSE S3Reject(r, "no deployment found")
    /\ UNCHANGED <<bucketNotification, lambdaPermissions, createVars, svVars, xpVars>>

\* part_000:26-51  function configuration received; the access policy is put
S3GetLambdaDone(r) ==
    /\ run[r].pc = "getLambda"
    /\ \E ok \in BOOLEAN :
         IF ok THEN run' = [run EXCEPT ![r].pc = "addS3AccessPolicy",
                                       ![r].arn = FunctionArns[r]]
         ELSE S3Reject(r, "getFunctionConfiguration failed")
    /\ UNCHANGED <<bucketNotification, lambdaPermissions, createVars, svVars, xpVars>>

\* part_000:110-112, 53-92  access policy put; addInvokePermission runs, then
\* addBucketNotificationConfig issues the fetch
S3AddAccessPolicyDone(r) ==
    /\ run[r].pc = "addS3AccessPolicy"
    /\ \E ok \in BOOLEAN :
         IF ~ok THEN S3Reject(r, "putRolePolicy failed")
         ELSE run' = [run EXCEPT ![r] =
                        [addInvokePermission(run[r]) EXCEPT !.pc = "getNotification"]]
    /\ UNCHANGED <<bucketNotification, lambdaPermissions, createVars, svVars, xpVars>>

\* part_000:90-102  configuration fetched; the merged one is written
S3GetNotificationDone(r) ==
    /\ run[r].pc = "getNotification"
    /\ \E ok \in BOOLEAN :
         IF ok
         THEN run' = [run EXCEPT
                        ![r].pc = "putNotification",
                        ![r].currentConfig = bucketNotification,
                        ![r].fetched = TRUE,
                        ![r].merged = <<mergedConfig(bucketNotification,
                                          eventConfig(run[r].options, run[r].arn))>>]
         ELSE S3Reject(r, "getBucketNotificationConfiguration failed")
    /\ UNCHANGED <<bucketNotification, lambdaPermissions, createVars, svVars, xpVars>>

\* part_000:99-103  the write settles
S3PutNotificationDone(r) ==
    /\ run[r].pc = "putNotification"
    /\ \E ok \in BOOLEAN :
         IF ok
         THEN /\ run' = [run EXCEPT ![r].pc = "resolved"]
              /\ bucketNotification' = run[r].merged
         ELSE /\ S3Reject(r, "putBucketNotificationConfiguration failed")
              /\ UNCHANGED bucketNotification
    /\ UNCHANGED <<lambdaPermissions, createVars, svVars, xpVars>>

NextS3 ==
    \E r \in Runs :
        \/ S3Start(r)
        \/ S3LoadConfigDone(r)
        \/ S3GetLambdaDone(r)
        \/ S3AddAccessPolicyDone(r)
        \/ S3GetNotificationDone(r)
        \/ S3PutNotificationDone(r)

(***************************************************************************)
(* set-version (src/src/command/create.js:591-648).                        *)
(***************************************************************************)
EnvKeys == {"A", "B"}

\* the variables the function has before the command runs (none, or a mapping)
ExistingEnvs == {<<>>} \cup {<<[k \in K |-> "old"]>> : K \in SUBSET EnvKeys}

\* the variables the options propose
ProposedEnvs == {[k \in K |-> "new"] : K \in (SUBSET EnvKeys) \ {{}}}

\* the environment options: none, replace (set-env), merge (update-env), or a
\* combination util/read-env-vars-from-options refuses
EnvOptions ==
    {[mode |-> "none", vars |-> <<>>], [mode |-> "invalid", vars |-> <<>>]}
    \cup {[mode |-> m, vars |-> <<p>>] : m \in {"replace", "merge"}, p \in ProposedEnvs}

SvOptions == [version : {"", "production"}, env : EnvOptions]

\* the descriptor on disk: none, one without a gateway, one whose gateway
\* entry has no id, and one with a gateway
SvDescriptors ==
    {<<>>,
     <<[lambda |-> [name |-> "fn", region |-> "us-east-1"], api |-> <<>>]>>,
     <<[lambda |-> [name |-> "fn", region |-> "us-east-1"],
        api |-> <<[id |-> ""]>>]>>,
     <<[lambda |-> [name |-> "fn", region |-> "us-east-1"],
        api |-> <<[id |-> "api-1"]>>]>>}

\* a property read: the value under `name`, undefined (<<>>) when the object
\* has no property of exactly that name
JsGet(obj, name) == IF name \in DOMAIN obj THEN <<obj[name]>> ELSE <<>>

\* the answer of lambda.getFunctionConfiguration
functionConfiguration(env) ==
    [Environment |-> IF env = <<>> THEN <<>> ELSE <<[Variables |-> env[1]]>>]

\* create.js:611  functionConfiguration.Environment &&
\*                functionConfiguration.Environment.variables
existingEnvVars(conf) ==
    IF conf.Environment = <<>> THEN <<>>
    ELSE JsGet(conf.Environment[1], "variables")

\* util/update-env-vars, Merge Reconciler mergeEnvVars(existing, proposed, mode)
mergeEnvVars(existing, proposed, mode) ==
    LET old == IF existing = <<>> THEN << >> ELSE existing[1] IN
    IF mode = "replace" THEN proposed
    ELSE [k \in DOMAIN old \cup DOMAIN proposed |->
            IF k \in DOMAIN proposed THEN proposed[k] ELSE old[k]]

InitSV ==
    /\ \E o \in SvOptions, d \in SvDescriptors :
         sv = [pc |-> "start", options |-> o, descriptor |-> d,
               lambdaConfig |-> <<>>, apiConfig |-> <<>>,
               envBefore |-> <<>>, envWritten |-> <<>>,
               versionResult |-> "", error |-> ""]
    /\ svCloud \in [env : ExistingEnvs, versions : {1}, aliases : {{}},
                    permissions : {{}}, deployments : {{}}]
    /\ svEvents = <<>>

IdleSV ==
    /\ sv = [pc |-> "idle"]
    /\ svCloud = [env |-> <<>>]
    /\ svEvents = <<>>

SvReject(reason) == sv' = [sv EXCEPT !.pc = "rejected", !.error = reason]

\* create.js:614-624  the options are checked; the descriptor is loaded
SvStart ==
    /\ sv.pc = "start"
    /\ IF sv.options.version = "" THEN SvReject("version not given") /\ UNCHANGED svEvents
       ELSE IF sv.options.env.mode = "invalid"
       THEN SvReject("invalid environment options") /\ UNCHANGED svEvents
       ELSE /\ sv' = [sv EXCEPT !.pc = "loadConfig"]
            /\ svEvents' = svEvents \o <<Ev("loadConfig", "issue", <<>>)>>
    /\ UNCHANGED <<svCloud, createVars, s3Vars, xpVars>>

\* create.js:624-637, 607-610  descriptor loaded; the configuration is fetched
SvLoadConfigDone ==
    /\ sv.pc = "loadConfig"
    /\ IF sv.descriptor = <<>>
       THEN /\ SvReject("no deployment found")
            /\ svEvents' = svEvents \o <<Ev("loadConfig", "fail", <<>>)>>
       ELSE /\ sv' = [sv EXCEPT !.pc = "getFunctionConfiguration",
                                !.lambdaConfig = <<sv.descriptor[1].lambda>>,
                                !.apiConfig = sv.descriptor[1].api]
            /\ svEvents' = svEvents \o <<Ev("loadConfig", "ok", <<>>),
                                         Ev("getFunctionConfiguration", "issue", <<>>)>>
    /\ UNCHANGED <<svCloud, createVars, s3Vars, xpVars>>

\* create.js:640  publishVersion is issued
publishStart == <<Ev("publishVersion", "issue", <<>>)>>

\* create.js:610-611  configuration received; updateEnvVars updates the
\* function when environment options were given
SvGetConfigurationDone ==
    /\ sv.pc = "getFunctionConfiguration"
    /\ \E ok \in BOOLEAN :
         IF ~ok
         THEN /\ SvReject("getFunctionConfiguration failed")
              /\ svEvents' = svEvents \o <<Ev("getFunctionConfiguration", "fail", <<>>)>>
         ELSE IF sv.options.env.mode = "none"
         THEN /\ sv' = [sv EXCEPT !.pc = "publishVersion", !.envBefore = svCloud.env]
              /\ svEvents' = svEvents \o <<Ev("getFunctionConfiguration", "ok", <<>>)>>
                                      \o publishStart
         ELSE /\ sv' = [sv EXCEPT
                          !.pc = "updateFunctionConfiguration",
                          !.envBefore = svCloud.env,
                          !.envWritten =
                              <<mergeEnvVars(existingEnvVars(functionConfiguration(svCloud.env)),
                                             sv.options.env.vars[1],
                                             sv.options.env.mode)>>]
              /\ svEvents' = svEvents \o
                   <<Ev("getFunctionConfiguration", "ok", <<>>),
                     Ev("updateFunctionConfiguration", "issue", <<>>)>>
    /\ UNCHANGED <<svCloud, createVars, s3Vars, xpVars>>

\* create.js:637-641  the update settles; publishVersion is issued
SvUpdateConfigurationDone ==
    /\ sv.pc = "updateFunctionConfiguration"
    /\ \E ok \in BOOLEAN :
         IF ok
         THEN /\ sv' = [sv EXCEPT !.pc = "publishVersion"]
              /\ svCloud' = [svCloud EXCEPT !.env = sv.envWritten]
              /\ svEvents' = svEvents \o
                   <<Ev("updateFunctionConfiguration", "ok", <<>>)>> \o publishStart
         ELSE /\ SvReject("updateFunctionConfiguration failed")
              /\ svEvents' = svEvents \o
                   <<Ev("updateFunctionConfiguration", "fail", <<>>)>>
              /\ UNCHANGED svCloud
    /\ UNCHANGED <<createVars, s3Vars, xpVars>>

\* the alias bound to the unpublished head instead of the published version
SvAliasTargetHead(versionResult) == "$LATEST"

\* create.js:642  the version reference the alias is bound to
SvAliasTarget(versionResult) == versionResult

VersionNames == <<"1", "2", "3">>

\* create.js:640-642  version published; the alias is bound to it
SvPublishVersionDone ==
    /\ sv.pc = "publishVersion"
    /\ \E ok \in BOOLEAN :
         IF ok
         THEN LET Version == VersionNames[svCloud.versions + 1] IN
              /\ sv' = [sv EXCEPT !.pc = "markAlias", !.versionResult = Version]
              /\ svCloud' = [svCloud EXCEPT !.versions = @ + 1]
              /\ svEvents' = svEvents \o
                   <<Ev("publishVersion", "ok", <<Version>>),
                     Ev("markAlias", "issue",
                        <<sv.options.version, SvAliasTarget(Version)>>)>>
         ELSE /\ SvReject("publishVersion failed")
              /\ svEvents' = svEvents \o <<Ev("publishVersion", "fail", <<>>)>>
              /\ UNCHANGED svCloud
    /\ UNCHANGED <<createVars, s3Vars, xpVars>>

\* the gateway updated whatever the descriptor holds
updatesApiAlways(apiConfig) == TRUE

\* create.js:644  apiConfig && apiConfig.id
updatesApi(apiConfig) == apiConfig # <<>> /\ apiConfig[1].id # ""

\* create.js:642-647, 595-597  alias bound; with a gateway, updateApi starts
SvMarkAliasDone ==
    /\ sv.pc = "markAlias"
    /\ \E ok \in BOOLEAN :
         IF ~ok
         THEN /\ SvReject("markAlias failed")
              /\ svEvents' = svEvents \o
                   <<Ev("markAlias", "fail",
                        <<sv.options.version, SvAliasTarget(sv.versionResult)>>)>>
              /\ UNCHANGED svCloud
         ELSE /\ svCloud' = [svCloud EXCEPT !.aliases =
                               markAlias(@, SvAliasTarget(sv.versionResult), sv.options.version)]
              /\ IF updatesApi(sv.apiConfig)
                 THEN /\ sv' = [sv EXCEPT !.pc = "getOwnerInfo"]
                      /\ svEvents' = svEvents \o
                           <<Ev("markAlias", "ok",
                                <<sv.options.version, SvAliasTarget(sv.versionResult)>>),
                             Ev("getOwnerInfo", "issue", <<>>)>>
                 ELSE /\ sv' = [sv EXCEPT !.pc = "resolved"]
                      /\ svEvents' = svEvents \o
                           <<Ev("markAlias", "ok",
                                <<sv.options.version, SvAliasTarget(sv.versionResult)>>)>>
    /\ UNCHANGED <<createVars, s3Vars, xpVars>>

\* A step of updateApi settles and the next one is issued (create.js:595-606).
SvApiStep(this, next, nextPc) ==
    /\ sv.pc = this
    /\ \E ok \in BOOLEAN :
         IF ok
         THEN /\ sv' = [sv EXCEPT !.pc = nextPc]
              /\ svCloud' = IF this = "allowApiInvocation"
                            THEN [svCloud EXCEPT !.permissions = @ \cup {sv.options.version}]
                            ELSE IF this = "createDeployment"
                            THEN [svCloud EXCEPT !.deployments = @ \cup
                                    {[stageName |-> sv.options.version,
                                      lambdaVersion |-> sv.options.version]}]
                            ELSE svCloud
              /\ svEvents' = svEvents \o <<Ev(this, "ok", <<>>)>> \o next
         ELSE /\ SvReject("gateway update failed")
              /\ svEvents' = svEvents \o <<Ev(this, "fail", <<>>)>>
              /\ UNCHANGED svCloud
    /\ UNCHANGED <<createVars, s3Vars, xpVars>>

\* create.js:596-597
SvGetOwnerInfoDone ==
    SvApiStep("getOwnerInfo", <<Ev("allowApiInvocation", "issue", <<>>)>>,
              "allowApiInvocation")

\* create.js:597-604
SvAllowApiInvocationDone ==
    SvApiStep("allowApiInvocation", <<Ev("createDeployment", "issue", <<>>)>>,
              "createDeployment")

\* create.js:598-605
SvCreateDeploymentDone == SvApiStep("createDeployment", <<>>, "resolved")

NextSV ==
    \/ SvStart
    \/ SvLoadConfigDone
    \/ SvGetConfigurationDone
    \/ SvUpdateConfigurationDone
    \/ SvPublishVersionDone
    \/ SvMarkAliasDone
    \/ SvGetOwnerInfoDone
    \/ SvAllowApiInvocationDone
    \/ SvCreateDeploymentDone

(***************************************************************************)
(* generate-serverless-express-proxy (src/unnamed/part_001).               *)
(* A name is a sequence of pieces; a path is a name followed by its        *)
(* extension, relative to the source directory (the working directory).    *)
(***************************************************************************)
\* String.prototype.indexOf('/') >= 0
HasSlash(s) == \E i \in DOMAIN s : s[i] = "/"

XpOptions ==
    [express_module : {<<>>, <<"app">>},
     proxy_module_name : {<<>>, <<"web">>, <<"sub", "/", "web">>},
     aws_serverless_express_module : {"", "my-serverless-express"}]

\* the files the source directory can hold before the command runs
XpFiles ==
    {<<"app", ".js">>, <<"package.json">>, <<"lambda", ".js">>, <<"web", ".js">>,
     <<"sub", "/", "web", ".js">>, <<"-e">>}

\* part_001:15  options['aws-serverless-express-module'] || 'aws-serverless-express'
serverlessModule(o) ==
    IF o.aws_serverless_express_module # "" THEN o.aws_serverless_express_module
    ELSE "aws-serverless-express"

\* part_001:16  options['proxy-module-name'] || 'lambda'
proxyModuleName(o) ==
    IF o.proxy_module_name # <<>> THEN o.proxy_module_name ELSE <<"lambda">>

\* part_001:17  path.join(source, `${proxyModuleName}.js`)
proxyModulePath(o) == Append(proxyModuleName(o), ".js")

\* util/fs-utils fileExists(path), as part_001:25, 28 and create.js:99, 105
\* call it: whether the path it is given first names an existing file
fileExists(files, path) == path \in files

\* part_001:31  fsUtil.fileExists('-e', proxyModulePath): the path handed to
\* fileExists is '-e', the path of the proxy module is a second argument
proxyModuleExists(files, o) == fileExists(files, <<"-e">>)

\* part_001:22-36  the first failing check, "" if none
xpValidationError(o, files) ==
    IF o.express_module = <<>> THEN "express-module undefined"
    ELSE IF ~fileExists(files, Append(o.express_module, ".js")) THEN "no express module"
    ELSE IF ~fileExists(files, <<"package.json">>) THEN "not a node.js project"
    ELSE IF proxyModuleExists(files, o) THEN "proxy module exists"
    ELSE IF HasSlash(proxyModuleName(o)) THEN "proxy module in a subdirectory"
    ELSE ""

InitXP ==
    \E o \in XpOptions, files \in SUBSET XpFiles :
        /\ xp = [pc |-> "start", options |-> o, error |-> "", result |-> <<>>,
                 proxyBefore |-> IF proxyModulePath(o) \in files THEN "existing" ELSE ""]
        /\ xpDisk = [files |-> files,
                     proxy |-> IF proxyModulePath(o) \in files THEN "existing" ELSE "",
                     dependencies |-> {}]

IdleXP ==
    /\ xp = [pc |-> "idle"]
    /\ xpDisk = [files |-> {}]

XpReject(reason) == xp' = [xp EXCEPT !.pc = "rejected", !.error = reason]

\* part_001:22-38  the checks; installDependencies is started
XpStart ==
    /\ xp.pc = "start"
    /\ IF xpValidationError(xp.options, xpDisk.files) # ""
       THEN XpReject(xpValidationError(xp.options, xpDisk.files))
       ELSE xp' = [xp EXCEPT !.pc = "installDependencies"]
    /\ UNCHANGED <<xpDisk, createVars, s3Vars, svVars>>

\* part_001:20, 38-55  npm install settles; the proxy module is written
XpInstallDependenciesDone ==
    /\ xp.pc = "installDependencies"
    /\ \E ok \in BOOLEAN :
         IF ok
         THEN /\ xp' = [xp EXCEPT !.pc = "writeFile"]
              /\ xpDisk' = [xpDisk EXCEPT !.dependencies = @ \cup {serverlessModule(xp.options)}]
         ELSE /\ XpReject("npm install failed")
              /\ UNCHANGED xpDisk
    /\ UNCHANGED <<createVars, s3Vars, svVars>>

\* part_001:55-59  writeFile settles: the file holds the generated contents
XpWriteFileDone ==
    /\ xp.pc = "writeFile"
    /\ \E ok \in BOOLEAN :
         IF ok
         THEN /\ xp' = [xp EXCEPT !.pc = "resolved",
                                  !.result = <<Append(proxyModuleName(xp.options), ".handler")>>]
              /\ xpDisk' = [xpDisk EXCEPT !.files = @ \cup {proxyModulePath(xp.options)},
                                          !.proxy = "generated"]
         ELSE /\ XpReject("proxy module not written")
              /\ UNCHANGED xpDisk
    /\ UNCHANGED <<createVars, s3Vars, svVars>>

NextXP ==
    \/ XpStart
    \/ XpInstallDependenciesDone
    \/ XpWriteFileDone

(***************************************************************************)
(* The specifications: one per command.                                    *)
(***************************************************************************)
IdleCreate ==
    /\ pc = "idle"
    /\ options = OptionsOf(DefaultScenario)
    /\ disk = DiskOf(DefaultScenario)
    /\ error = ""
    /\ result = <<>>
    /\ roleMetadata = <<>>
    /\ s3Key = ""
    /\ packageArchive = ""
    /\ functionName = ""
    /\ workingDir = ""
    /\ lambdaMetadata = <<>>
    /\ maxTimes = 0
    /\ apiModule = ""
    /\ inflight = {}
    /\ events = <<>>
    /\ cloud = [roles |-> {}, policies |-> {}, functions |-> {}, aliases |-> {},
                apis |-> {}]

Init == InitCreate /\ IdleS3 /\ IdleSV /\ IdleXP

Next == NextCreate

Spec == Init /\ [][Next]_vars

StartS3 == IdleCreate /\ InitS3 /\ IdleSV /\ IdleXP

SpecS3 == StartS3 /\ [][NextS3]_vars

StartSV == IdleCreate /\ IdleS3 /\ InitSV /\ IdleXP

SpecSV == StartSV /\ [][NextSV]_vars

StartXP == IdleCreate /\ IdleS3 /\ IdleSV /\ InitXP

SpecXP == StartXP /\ [][NextXP]_vars

(***************************************************************************)
(* Properties.                                                             *)
(***************************************************************************)
Positions(log, op, ev) == {i \in DOMAIN log : log[i].op = op /\ log[i].ev = ev}

Ended == pc \in {"resolved", "rejected"}

\* C1: every run of create that created the staging directory runs cleanup
\* before it ends, whether it resolves or rejects: the cleanup step has
\* executed and, unless keep was requested, the staging directory and the
\* archive are gone.
C1_CleanupOnEveryPath ==
    (Ended /\ workingDir # "") =>
        /\ Positions(events, "cleanup", "ok") # {}
        /\ ~options.keep => (~disk.workingDir /\ ~disk.archive)

Untouched ==
    /\ events = <<>>
    /\ inflight = {}
    /\ cloud.roles = {} /\ cloud.policies = {} /\ cloud.functions = {}
    /\ cloud.aliases = {} /\ cloud.apis = {}
    /\ roleMetadata = <<>>
    /\ ~disk.workingDir /\ ~disk.archive
    /\ disk.configFile \in {<<>>, <<OldDescriptor>>}

ValidationMessages ==
    {"region undefined", "handler undefined", "handler with api-module",
     "deploy-proxy-api needs handler", "handler names no function",
     "api-module is a file name", "cannot write config", "config exists",
     "no package.json", "no policy files", "memory too small", "memory too large",
     "memory not multiple of 64", "timeout too small", "timeout too large",
     "allow-recursion with role", "s3-key without use-s3-bucket"}

\* C2: a run rejected by validation has issued no call and changed nothing (no
\* role, no function, no staging directory, no descriptor); and a run given
\* both a handler and an api-module is rejected by validation.
C2_ValidationBeforeAnyEffect ==
    /\ (pc = "rejected" /\ error \in ValidationMessages) => Untouched
    /\ (pc # "start" /\ options.handler # <<>> /\ options.api_module # <<>>) =>
          (pc = "rejected" /\ error \in ValidationMessages /\ Untouched)

C2_Witness ==
    /\ pc = "rejected"
    /\ options.handler # <<>> /\ options.api_module # <<>>
    /\ error = "handler with api-module"

\* the subscriptions of a notification configuration (none when absent)
Subscriptions(config) ==
    IF config = <<>> THEN <<>>
    ELSE IF config[1].LambdaFunctionConfigurations = <<>> THEN <<>>
    ELSE config[1].LambdaFunctionConfigurations[1]

Arns(list) == {list[i].LambdaFunctionArn : i \in DOMAIN list}

BothFetchedBeforeEitherWrote(a, b) ==
    /\ a # b
    /\ run[a].pc = "resolved" /\ run[b].pc = "resolved"
    /\ run[a].currentConfig = run[b].currentConfig

\* C3: when two runs against the same bucket both fetch the configuration
\* before either writes it and both report success, the bucket ends with the
\* fetched subscriptions followed by the new rule of one run only (the last
\* writer); the rule of the other run is not in it.
C3_LastWriterWins ==
    \A a, b \in Runs :
        BothFetchedBeforeEitherWrote(a, b) =>
            \E w \in {a, b} :
                /\ bucketNotification = run[w].merged
                /\ Subscriptions(bucketNotification) =
                       Append(Subscriptions(run[w].currentConfig),
                              eventConfig(run[w].options, run[w].arn))
                /\ \A l \in {a, b} \ {w} :
                       run[l].arn \notin Arns(Subscriptions(bucketNotification))

C3_Witness == \E a, b \in Runs : BothFetchedBeforeEitherWrote(a, b)

\* C4: a run that fetched a configuration with a non-empty subscription list
\* writes the fetched configuration with its rule appended at the end: the
\* fetched subscriptions come first, unchanged and in order, the other parts
\* are the fetched ones; and when no other run touched the bucket, this is
\* the bucket's configuration after the run.
C4_AppendKeepsExisting ==
    \A r \in Runs :
        (run[r].merged # <<>> /\ Len(Subscriptions(run[r].currentConfig)) > 0) =>
            LET old == Subscriptions(run[r].currentConfig)
                new == Subscriptions(run[r].merged) IN
            /\ Len(new) = Len(old) + 1
            /\ SubSeq(new, 1, Len(old)) = old
            /\ new[Len(new)].LambdaFunctionArn = run[r].arn
            /\ run[r].merged[1].TopicConfigurations =
                   run[r].currentConfig[1].TopicConfigurations
            /\ (run[r].pc = "resolved" /\ \A q \in Runs \ {r} : run[q].merged = <<>>)
                   => bucketNotification = run[r].merged

C4_Witness ==
    \E r \in Runs :
        /\ run[r].pc = "resolved"
        /\ Len(Subscriptions(run[r].currentConfig)) = MaxExisting
        /\ \A q \in Runs \ {r} : run[q].merged = <<>>
        /\ Len(Subscriptions(bucketNotification)) = MaxExisting + 1

\* C5: a run fetches or writes the bucket's notification configuration only
\* after the invoke permission for the storage principal is attached to its
\* function.
C5_PermissionBeforeNotification ==
    \A r \in Runs :
        run[r].pc \in {"getNotification", "putNotification", "resolved"} =>
            run[r].arn \in lambdaPermissions

AliasCalls == [i \in 1..Cardinality(Positions(events, "markAlias", "issue")) |->
                 events[CHOOSE p \in Positions(events, "markAlias", "issue") :
                          Cardinality({q \in Positions(events, "markAlias", "issue") : q <= p}) = i].arg]

PublishedVersions ==
    {events[i].arg[1] : i \in Positions(events, "createFunction", "ok")}

\* C6 as stated: in a run with a version label the two alias bindings target
\* the same version, the one this run's function creation published.
C6_AliasesTargetOneVersion ==
    (options.version # "" /\ Len(AliasCalls) = 2) =>
        /\ AliasCalls[1][2] = AliasCalls[2][2]
        /\ AliasCalls[1][2] \in PublishedVersions

\* C6 amended: the first binding is the alias 'latest' against the reference
\* $LATEST; the second, issued only with a version label, is that label
\* against the version this run's function creation published.
C6_LatestThenPublished ==
    /\ Len(AliasCalls) <= 2
    /\ Len(AliasCalls) >= 1 => AliasCalls[1] = <<"latest", "$LATEST">>
    /\ Len(AliasCalls) = 2 =>
          /\ options.version # ""
          /\ AliasCalls[2][1] = options.version
          /\ AliasCalls[2][2] \in PublishedVersions
    /\ (pc = "resolved" /\ options.version \notin {"", "latest"}) =>
          cloud.aliases = {<<"latest", "$LATEST">>,
                           <<options.version, lambdaMetadata[1].Version>>}

C6_Witness ==
    /\ pc = "resolved"
    /\ options.version = "dev"
    /\ Len(AliasCalls) = 2

\* C7: a merge-mode update writes exactly the union of the variables the
\* function had and the proposed ones, the proposed value winning.
C7_MergeKeepsExisting ==
    (sv.pc # "idle" /\ sv.options.env.mode = "merge" /\ sv.envWritten # <<>>) =>
        LET old == IF sv.envBefore = <<>> THEN << >> ELSE sv.envBefore[1]
            new == sv.options.env.vars[1]
            out == sv.envWritten[1] IN
        /\ DOMAIN out = DOMAIN old \cup DOMAIN new
        /\ \A k \in DOMAIN out :
              out[k] = IF k \in DOMAIN new THEN new[k] ELSE old[k]

\* the place of an operation in the forced order of the pipeline
Stage(op) ==
    CASE op \in {"initEnvVars", "getPackageInfo", "getOwnerInfo"} -> 0
      [] op \in {"mkdtemp", "collectFiles", "validatePackage", "cleanUpPackage",
                 "zipdir"} -> 1
      [] op \in {"loadRole", "putRolePolicy", "addPolicy"} -> 2
      [] op \in {"lambdaCode", "createFunction", "onRetry"} -> 3
      [] op = "markAlias" -> 4
      [] op \in {"createRestApi", "rebuildWebApi", "postDeploy", "deployProxyApi"} -> 5
      [] op = "saveConfig" -> 6
      [] op = "cleanup" -> 7

Starts(e) == e.ev = "issue" \/ e.op = "cleanup"

\* two events of the same call (the calls of one kind issued more than once
\* in a run are told apart by their argument)
SameCall(e, f) ==
    e.op = f.op /\ (e.op \in {"addPolicy", "markAlias"} => e.arg = f.arg)

\* C8: the steps run in the forced order and none starts before the steps
\* before it have completed: when an operation is issued, every operation of
\* an earlier step that was issued has completed successfully, and no
\* operation of a later step has been issued.
C8_ForcedOrder ==
    \A j \in DOMAIN events :
        Starts(events[j]) =>
            \A i \in 1..(j - 1) :
                /\ Stage(events[i].op) <= Stage(events[j].op)
                /\ (events[i].ev = "issue" /\ Stage(events[i].op) < Stage(events[j].op)) =>
                      \E k \in (i + 1)..(j - 1) :
                          SameCall(events[k], events[i]) /\ events[k].ev = "ok"

C8_Witness ==
    /\ pc = "resolved"
    /\ options.api_module # <<>>
    /\ options.policies # ""
    /\ options.version # ""
    /\ options.role = ""

\* a failure the retry predicate accepts (the identity-propagation error of
\* function creation) that is followed by the retry notification
Retried(i) ==
    /\ events[i].op = "createFunction"
    /\ events[i].arg = <<"InvalidParameterValueException">>
    /\ i < Len(events)
    /\ events[i + 1].op = "onRetry"

\* C9: after a failure that is not retried nothing more is started: no
\* operation is issued, the descriptor is not written, and cleanup is the
\* only step that may follow.
C9_FailureHalts ==
    /\ \A i \in DOMAIN events :
          (events[i].ev = "fail" /\ ~Retried(i)) =>
              \A j \in (i + 1)..Len(events) :
                  events[j].ev \in {"ok", "fail"} /\ events[j].op \in {"addPolicy", "cleanup"}
    /\ (pc = "rejected") => disk.configFile \in {<<>>, <<OldDescriptor>>}
    /\ (Positions(events, "loadRole", "fail") # {} \/ Positions(events, "putRolePolicy", "fail") # {})
          => Positions(events, "createFunction", "issue") = {}
    /\ (pc = "rejected" /\ cloud.functions = {}) => Positions(events, "markAlias", "issue") = {}
    /\ (\E op \in {"createRestApi", "rebuildWebApi", "postDeploy", "deployProxyApi"} :
            Positions(events, op, "fail") # {})
          => Positions(events, "saveConfig", "issue") = {}

C9_Witness ==
    /\ pc = "rejected"
    /\ \E i \in DOMAIN events : events[i].ev = "fail" /\ events[i].op = "rebuildWebApi"
    /\ cloud.functions # {}

\* the outcomes of the function-creation attempts, in order
RECURSIVE Outcomes(_)
Outcomes(log) ==
    IF log = <<>> THEN <<>>
    ELSE IF Head(log).op = "createFunction" /\ Head(log).ev \in {"ok", "fail"}
    THEN <<IF Head(log).ev = "ok" THEN "ok" ELSE Head(log).arg[1]>> \o Outcomes(Tail(log))
    ELSE Outcomes(Tail(log))

TwiceRetryable == <<"InvalidParameterValueException", "InvalidParameterValueException">>

\* C10: with at least three attempts allowed, a function creation that fails
\* twice with the identity-propagation error is attempted a third time, and
\* when the third attempt succeeds create goes on (binds the alias) with the
\* result of that attempt, having notified 'waiting for the role' exactly
\* twice and invoked function creation exactly three times.
C10_ThirdAttemptSucceeds ==
    awsRetries(options) >= 3 =>
        /\ Outcomes(events) \in {SubSeq(TwiceRetryable, 1, 1), TwiceRetryable} =>
              /\ pc \in {"retryDelay", "createFunction"}
              /\ Cardinality(Positions(events, "onRetry", "notify")) = Len(Outcomes(events))
        /\ Outcomes(events) = TwiceRetryable \o <<"ok">> =>
              /\ Cardinality(Positions(events, "onRetry", "notify")) = 2
              /\ Cardinality(Positions(events, "createFunction", "issue")) = 3
              /\ lambdaMetadata # <<>>
              /\ lambdaMetadata[1].FunctionName = functionName
              /\ lambdaMetadata[1].Version \in PublishedVersions
              /\ Positions(events, "markAlias", "issue") # {}

C10_Witness ==
    /\ Outcomes(events) = TwiceRetryable \o <<"ok">>
    /\ pc = "resolved"

\* the codes of CreateFunctionErrors the predicate of create.js:177-179 rejects
NotRetryable == {"ResourceConflictException"}

\* C11: a function-creation attempt that fails with a code other than the
\* identity-propagation code is the last one: create is rejected with that
\* code as its error, unchanged, no retry notification follows it, and when
\* it was the first attempt function creation was attempted exactly once
\* and no retry notification was emitted, whatever aws-retries allows.
C11_NonRetryableOnce ==
    LET outs == Outcomes(events) IN
    \A i \in DOMAIN outs :
        outs[i] \in NotRetryable =>
            /\ i = Len(outs)
            /\ pc = "rejected"
            /\ error = outs[i]
            /\ Cardinality(Positions(events, "createFunction", "issue")) = i
            /\ Cardinality(Positions(events, "onRetry", "notify")) = i - 1
            /\ events[Len(events)] = Ev("createFunction", "fail", <<outs[i]>>)
            /\ cloud.functions = {}

C11_Witness ==
    /\ Outcomes(events) = <<"ResourceConflictException">>
    /\ pc = "rejected"
    /\ options.aws_retries = <<MaxAwsRetries>>

\* the attempts the aws-retries option allows (create.js:51)
ConfiguredAttempts ==
    IF options.aws_retries # <<>> THEN options.aws_retries[1] ELSE DefaultAwsRetries

AllRetryable(outs) == \A i \in DOMAIN outs : outs[i] = "InvalidParameterValueException"

\* C12: function creation is never attempted more often than aws-retries
\* allows; when that many attempts have all failed with the retryable error
\* the loop has ended (no further attempt, no delay pending), create is
\* rejected with the error of the last attempt, and the retry notification
\* was emitted once per attempt but the last.
C12_AttemptsCapped ==
    LET outs == Outcomes(events) IN
    /\ Cardinality(Positions(events, "createFunction", "issue")) <= ConfiguredAttempts
    /\ maxTimes <= ConfiguredAttempts
    /\ (Len(outs) = ConfiguredAttempts /\ AllRetryable(outs)) =>
          /\ pc = "rejected"
          /\ error = outs[Len(outs)]
          /\ "createFunction" \notin inflight
          /\ Cardinality(Positions(events, "onRetry", "notify")) = ConfiguredAttempts - 1
          /\ cloud.functions = {}

C12_Witness ==
    /\ options.aws_retries = <<MaxAwsRetries>>
    /\ Len(Outcomes(events)) = MaxAwsRetries
    /\ AllRetryable(Outcomes(events))
    /\ pc = "rejected"

\* C13: given a role ARN, create issues no role-creation call, no role-lookup
\* call and no logging-policy call, creates no role and attaches no logging
\* policy, and every function-creation attempt is given that ARN as its role.
C13_RoleArnSkipsRoleCalls ==
    (options.role # "" /\ isRoleArn(options.role)) =>
        /\ inflight \cap {"createRole", "getRole", "putRolePolicy"} = {}
        /\ \A i \in DOMAIN events :
              /\ events[i].op = "loadRole" => events[i].arg = <<"arn">>
              /\ events[i].op # "putRolePolicy"
              /\ (events[i].op = "createFunction" /\ events[i].ev = "issue") =>
                    events[i].arg = <<options.role>>
        /\ cloud.roles = {}
        /\ "log-writer" \notin cloud.policies
        /\ roleMetadata # <<>> => roleMetadata[1].Arn = options.role

C13_Witness ==
    /\ options.role = RoleArn
    /\ pc = "resolved"
    /\ cloud.functions # {}

\* C14: a run that created the function binds the alias 'latest' next; a
\* second binding is issued only with a version label, for that label, and
\* only after the binding of 'latest' succeeded; and when the binding of the
\* label fails the run is rejected with nothing issued afterwards and the
\* alias 'latest' still bound as it was.
C14_LatestAlwaysLabelOnRequest ==
    /\ \A i \in Positions(events, "createFunction", "ok") :
          /\ i < Len(events)
          /\ events[i + 1].op = "markAlias" /\ events[i + 1].ev = "issue"
          /\ events[i + 1].arg[1] = "latest"
    /\ Len(AliasCalls) <= 2
    /\ Len(AliasCalls) = 2 =>
          /\ options.version # ""
          /\ AliasCalls[2][1] = options.version
          /\ \E i \in Positions(events, "markAlias", "ok") :
                /\ events[i].arg[1] = "latest"
                /\ events[i + 1] = Ev("markAlias", "issue", AliasCalls[2])
    /\ (options.version # "" /\ Positions(events, "markAlias", "ok") # {}) =>
          Len(AliasCalls) = 2
    /\ \A i \in Positions(events, "markAlias", "fail") :
          (Len(AliasCalls) = 2) =>
              /\ i = Len(events)
              /\ pc = "rejected"
              /\ error = "markAlias failed"
              /\ <<"latest", "$LATEST">> \in cloud.aliases

C14_Witness ==
    /\ Len(AliasCalls) = 2
    /\ options.version = "dev"
    /\ Positions(events, "markAlias", "fail") # {}
    /\ pc = "rejected"

\* C15: at most one remote call is in flight at any time.
C15_OneCallInFlight == Cardinality(inflight) <= 1

\* C16: with no role option, the logging policy is attached after the role
\* was created and before the first function-creation attempt, and when the
\* attachment fails the run is rejected and no function creation is
\* attempted; with a role option no logging-policy call is issued, so none
\* can fail the run.
C16_LoggingPolicy ==
    /\ options.role = "" =>
          /\ \A i \in Positions(events, "putRolePolicy", "issue") :
                /\ events[i - 1] = Ev("loadRole", "ok", <<"createRole">>)
                /\ \A j \in Positions(events, "createFunction", "issue") : i < j
          /\ Positions(events, "createFunction", "issue") # {} =>
                Positions(events, "putRolePolicy", "ok") # {}
          /\ Positions(events, "putRolePolicy", "fail") # {} =>
                /\ pc = "rejected"
                /\ error = "putRolePolicy failed"
                /\ Positions(events, "createFunction", "issue") = {}
                /\ cloud.functions = {}
    /\ options.role # "" =>
          /\ \A i \in DOMAIN events : events[i].op # "putRolePolicy"
          /\ "putRolePolicy" \notin inflight
          /\ error # "putRolePolicy failed"

C16_Witness ==
    /\ options.role = ""
    /\ Positions(events, "putRolePolicy", "fail") # {}
    /\ pc = "rejected"
    /\ cloud.roles # {}

\* the place of an operation in the order of set-version's steps
SvStage(op) ==
    CASE op = "loadConfig" -> 0
      [] op \in {"getFunctionConfiguration", "updateFunctionConfiguration"} -> 1
      [] op = "publishVersion" -> 2
      [] op = "markAlias" -> 3
      [] op \in {"getOwnerInfo", "allowApiInvocation", "createDeployment"} -> 4

SvHasGateway ==
    /\ sv.descriptor # <<>>
    /\ sv.descriptor[1].api # <<>>
    /\ sv.descriptor[1].api[1].id # ""

\* C17: the calls of set-version are issued one after the other in the order
\* load descriptor, environment variables, publish version, bind alias,
\* gateway, each only after the one before it succeeded; the gateway is
\* updated exactly when the descriptor has a gateway id; the alias named by
\* the version option is bound to the version this run's publish call
\* returned; and nothing follows a failed step.
C17_SetVersionOrder ==
    /\ \A j \in DOMAIN svEvents :
          /\ \A i \in 1..(j - 1) : SvStage(svEvents[i].op) <= SvStage(svEvents[j].op)
          /\ (svEvents[j].ev = "issue" /\ j > 1) =>
                /\ svEvents[j - 1].ev = "ok"
                /\ SvStage(svEvents[j - 1].op) \in
                       {SvStage(svEvents[j].op), SvStage(svEvents[j].op) - 1}
          /\ svEvents[j].ev = "fail" => (j = Len(svEvents) /\ sv.pc = "rejected")
          /\ (svEvents[j].op = "markAlias" /\ svEvents[j].ev = "issue") =>
                /\ svEvents[j - 1].op = "publishVersion"
                /\ svEvents[j].arg = <<sv.options.version, svEvents[j - 1].arg[1]>>
          /\ (svEvents[j].op = "publishVersion" /\ svEvents[j].ev = "issue"
                /\ sv.options.env.mode # "none") =>
                    svEvents[j - 1].op = "updateFunctionConfiguration"
          /\ SvStage(svEvents[j].op) = 4 => SvHasGateway
    /\ \A op \in {"loadConfig", "getFunctionConfiguration", "updateFunctionConfiguration",
                  "publishVersion", "markAlias", "getOwnerInfo", "allowApiInvocation",
                  "createDeployment"} :
          Cardinality(Positions(svEvents, op, "issue")) <= 1
    /\ sv.pc = "resolved" =>
          /\ Positions(svEvents, "publishVersion", "ok") # {}
          /\ svCloud.aliases = {<<sv.options.version, sv.versionResult>>}
          /\ sv.versionResult = VersionNames[svCloud.versions]
          /\ SvHasGateway <=> Positions(svEvents, "createDeployment", "ok") # {}
    /\ sv.pc = "rejected" => svCloud.deployments = {}

C17_Witness ==
    /\ sv.pc = "resolved"
    /\ SvHasGateway
    /\ sv.options.env.mode = "merge"
    /\ svCloud.aliases = {<<"production", "2">>}

\* the steps whose success comes before the descriptor is written
ExposureSucceeded(log) ==
    /\ Positions(log, "createFunction", "ok") # {}
    /\ \E i \in Positions(log, "markAlias", "ok") : log[i].arg[1] = "latest"
    /\ options.version # "" =>
          \E i \in Positions(log, "markAlias", "ok") : log[i].arg[1] = options.version
    /\ options.api_module # <<>> =>
          /\ Positions(log, "createRestApi", "ok") # {}
          /\ Positions(log, "rebuildWebApi", "ok") # {}
          /\ apiModule = "with postDeploy" => Positions(log, "postDeploy", "ok") # {}
    /\ (options.api_module = <<>> /\ options.deploy_proxy_api) =>
          Positions(log, "deployProxyApi", "ok") # {}

\* C18: a run that found a descriptor is rejected by validation having
\* issued no call and changed nothing, the descriptor left as it was; the
\* descriptor is written at most once, and only after function creation,
\* the alias bindings and, when requested, the API exposure have succeeded.
C18_DescriptorWrittenOnce ==
    /\ disk.configFile = <<OldDescriptor>> =>
          /\ pc \in {"start", "rejected"}
          /\ pc = "rejected" => error \in ValidationMessages
          /\ Untouched
    /\ Cardinality(Positions(events, "saveConfig", "issue")) <= 1
    /\ Cardinality(Positions(events, "saveConfig", "ok")) <= 1
    /\ \A j \in Positions(events, "saveConfig", "issue") :
          ExposureSucceeded(SubSeq(events, 1, j - 1))
    /\ disk.configFile \notin {<<>>, <<OldDescriptor>>} =>
          /\ pc = "resolved"
          /\ Positions(events, "saveConfig", "ok") # {}
          /\ ExposureSucceeded(events)
          /\ disk.configFile[1].lambda.name \in cloud.functions
    /\ Positions(events, "saveConfig", "ok") = {} =>
          disk.configFile \in {<<>>, <<OldDescriptor>>}

C18_Witness ==
    /\ pc = "rejected"
    /\ disk.configFile = <<OldDescriptor>>
    /\ error = "config exists"

\* the rule a run wrote last in the subscription list
NewRule(r) == LET list == Subscriptions(run[r].merged) IN list[Len(list)]

NoSubscriptionList(config) ==
    config = <<>> \/ config[1].LambdaFunctionConfigurations = <<>>

\* C19: a run that fetched no configuration, or one without a subscription
\* list, writes a configuration whose subscription list is present and holds
\* exactly one element, the run's new rule; and when no other run wrote,
\* that is the bucket's configuration after the run.
C19_EmptyConfigSingleRule ==
    \A r \in Runs :
        (run[r].pc \in {"putNotification", "resolved"}
           /\ NoSubscriptionList(run[r].currentConfig)) =>
            /\ run[r].merged # <<>>
            /\ run[r].merged[1].LambdaFunctionConfigurations # <<>>
            /\ Len(Subscriptions(run[r].merged)) = 1
            /\ NewRule(r).LambdaFunctionArn = FunctionArns[r]
            /\ Subscriptions(run[r].merged) = <<eventConfig(run[r].options, run[r].arn)>>
            /\ (run[r].pc = "resolved" /\ \A q \in Runs \ {r} : run[q].merged = <<>>)
                   => Subscriptions(bucketNotification) = <<NewRule(r)>>

C19_Witness ==
    \E r \in Runs :
        /\ run[r].pc = "resolved"
        /\ run[r].currentConfig = <<>>
        /\ \A q \in Runs \ {r} : run[q].merged = <<>>
        /\ Len(Subscriptions(bucketNotification)) = 1

\* the values of the filter rules of one kind the rule carries
FilterValues(rule, name) ==
    IF rule.Filter = <<>> THEN {}
    ELSE LET rules == rule.Filter[1].Key.FilterRules IN
         {rules[i].Value : i \in {k \in DOMAIN rules : rules[k].Name = name}}

\* C20: the new rule carries a prefix filter rule exactly when the prefix
\* option was given, with its value, a suffix filter rule exactly when the
\* suffix option was given, with its value, and no other filter rule; with
\* neither option it has no Filter at all, and a Filter it has is never an
\* empty list of rules.
C20_FilterRules ==
    \A r \in Runs :
        run[r].merged # <<>> =>
            LET rule == NewRule(r)
                o == run[r].options IN
            /\ FilterValues(rule, "prefix") = IF o.prefix # "" THEN {o.prefix} ELSE {}
            /\ FilterValues(rule, "suffix") = IF o.suffix # "" THEN {o.suffix} ELSE {}
            /\ (o.prefix = "" /\ o.suffix = "") <=> rule.Filter = <<>>
            /\ rule.Filter # <<>> =>
                  LET rules == rule.Filter[1].Key.FilterRules IN
                  /\ Len(rules) = Cardinality({p \in {o.prefix, o.suffix} : p # ""})
                  /\ \A i \in DOMAIN rules : rules[i].Name \in {"prefix", "suffix"}

C20_Witness ==
    \E r, q \in Runs :
        /\ run[r].pc = "resolved" /\ run[q].pc = "resolved"
        /\ run[r].options.prefix # "" /\ run[r].options.suffix = ""
        /\ run[q].options.prefix = "" /\ run[q].options.suffix = ""
        /\ NewRule(q).Filter = <<>>
        /\ NewRule(r).Filter # <<>>

\* C21: a create that succeeded with keep has deleted neither the staging
\* directory nor the archive and reports the archive's location in its
\* result; one that succeeded without keep has removed both and its result
\* names no archive.
C21_KeepRetainsArtifacts ==
    pc = "resolved" =>
        /\ workingDir # "" /\ packageArchive # ""
        /\ IF options.keep
           THEN /\ disk.workingDir /\ disk.archive
                /\ result[1].archive = packageArchive
           ELSE /\ ~disk.workingDir /\ ~disk.archive
                /\ result[1].archive = ""

C21_Witness ==
    /\ pc = "resolved"
    /\ options.keep
    /\ disk.archive
    /\ result[1].archive = "/tmp/staging.zip"

\* C22: without the aws-retries option, create gives up on an error that
\* stays retryable only after as many function-creation attempts as the
\* documented default.
C22_DefaultAttemptsAsDocumented ==
    (options.aws_retries = <<>> /\ pc = "rejected"
       /\ Outcomes(events) # <<>> /\ AllRetryable(Outcomes(events))) =>
        Cardinality(Positions(events, "createFunction", "issue")) = DocumentedAwsRetries

\* the limits the messages of create.js:124 and 127 state
TimeoutInLimits(t) == 1 <= t /\ t <= 900

\* C23: a run given a timeout below 1 or above 900 is rejected by validation
\* with nothing issued and nothing changed; a timeout from 1 to 900 is never
\* the reason of a rejection.
C23_TimeoutLimits ==
    /\ (pc # "start" /\ options.timeout # <<>> /\ ~TimeoutInLimits(options.timeout[1])) =>
          (pc = "rejected" /\ error \in ValidationMessages /\ Untouched)
    /\ (options.timeout # <<>> /\ TimeoutInLimits(options.timeout[1])) =>
          error \notin {"timeout too small", "timeout too large"}

\* the result the post-deploy hook returned, if it returned one
HookResult ==
    IF \E i \in Positions(events, "postDeploy", "ok") : events[i].arg = <<"result">>
    THEN "hook result" ELSE ""

\* C24: with an api-module the gateway is created first, the route tree is
\* rebuilt only after the gateway was created, the post-deploy hook is
\* invoked only when the module has one and only after the rebuild
\* succeeded, and the descriptor is written only after all of these; the
\* run's result carries the API metadata with the hook's result as its
\* deploy field when the hook returned one, and the descriptor written
\* carries the gateway id and the module reference and nothing else of it.
C24_ApiModuleFlow ==
    /\ \A j \in DOMAIN events :
          /\ events[j].op \in {"createRestApi", "rebuildWebApi", "postDeploy"} =>
                options.api_module # <<>>
          /\ (events[j].op = "createRestApi" /\ events[j].ev = "issue") =>
                /\ events[j - 1].op = "markAlias" /\ events[j - 1].ev = "ok"
                /\ \A i \in 1..(j - 1) : events[i].op \notin {"rebuildWebApi", "postDeploy"}
          /\ (events[j].op = "rebuildWebApi" /\ events[j].ev = "issue") =>
                events[j - 1] = Ev("createRestApi", "ok", <<>>)
          /\ (events[j].op = "postDeploy" /\ events[j].ev = "issue") =>
                /\ events[j - 1] = Ev("rebuildWebApi", "ok", <<>>)
                /\ apiModule = "with postDeploy"
          /\ (events[j].op = "saveConfig" /\ events[j].ev = "issue"
                /\ options.api_module # <<>>) =>
                /\ events[j - 1].ev = "ok"
                /\ events[j - 1].op =
                       IF apiModule = "with postDeploy" THEN "postDeploy" ELSE "rebuildWebApi"
    /\ \A op \in {"createRestApi", "rebuildWebApi", "postDeploy"} :
          Cardinality(Positions(events, op, "issue")) <= 1
    /\ (pc = "resolved" /\ options.api_module # <<>>) =>
          /\ result[1].api # <<>>
          /\ result[1].api[1].id \in cloud.apis
          /\ result[1].api[1].module = options.api_module
          /\ result[1].api[1].deploy = HookResult
          /\ disk.configFile[1].api # <<>>
          /\ DOMAIN disk.configFile[1].api[1] = {"id", "module"}
          /\ disk.configFile[1].api[1].id = result[1].api[1].id
          /\ disk.configFile[1].api[1].module = options.api_module

C24_Witness ==
    /\ pc = "resolved"
    /\ options.api_module # <<>>
    /\ apiModule = "with postDeploy"
    /\ result[1].api[1].deploy = "hook result"

SvGatewayOps == {"getOwnerInfo", "allowApiInvocation", "createDeployment"}

\* C25: a run without a version option or with invalid environment options
\* is rejected with no call issued, the descriptor not loaded and nothing
\* changed; the gateway calls are issued only when the descriptor has a
\* gateway id, and a run that succeeds has then granted the invoke
\* permission for the version label and created the stage deployment whose
\* lambdaVersion variable is the label, the permission first; without a
\* gateway id no permission and no deployment exist.
C25_SetVersionValidationAndGateway ==
    /\ (sv.pc \notin {"idle", "start"}
          /\ (sv.options.version = "" \/ sv.options.env.mode = "invalid")) =>
          /\ sv.pc = "rejected"
          /\ svEvents = <<>>
          /\ sv.lambdaConfig = <<>>
          /\ svCloud.aliases = {} /\ svCloud.permissions = {} /\ svCloud.deployments = {}
          /\ svCloud.versions = 1
    /\ \A j \in DOMAIN svEvents :
          /\ svEvents[j].op \in SvGatewayOps => SvHasGateway
          /\ (svEvents[j].op = "createDeployment" /\ svEvents[j].ev = "issue") =>
                /\ svEvents[j - 1] = Ev("allowApiInvocation", "ok", <<>>)
                /\ sv.options.version \in svCloud.permissions
    /\ sv.pc # "idle" =>
          /\ svCloud.deployments # {} => svCloud.permissions # {}
          /\ svCloud.deployments \subseteq
                 {[stageName |-> sv.options.version, lambdaVersion |-> sv.options.version]}
          /\ svCloud.permissions \subseteq {sv.options.version}
    /\ sv.pc = "resolved" =>
          IF SvHasGateway
          THEN /\ svCloud.permissions = {sv.options.version}
               /\ svCloud.deployments =
                      {[stageName |-> sv.options.version,
                        lambdaVersion |-> sv.options.version]}
          ELSE /\ svCloud.permissions = {} /\ svCloud.deployments = {}
               /\ \A j \in DOMAIN svEvents : svEvents[j].op \notin SvGatewayOps

C25_Witness ==
    /\ sv.pc = "resolved"
    /\ SvHasGateway
    /\ svCloud.deployments # {}

\* the role-creation calls issued
RoleCreations ==
    {i \in Positions(events, "loadRole", "issue") : events[i].arg = <<"createRole">>}

\* C26: the role-creation call is issued at most once in a run; when it
\* fails the run is rejected then and there, with no retry notification,
\* no second role call and no function-creation attempt; the retry
\* notification only ever follows a failed function-creation attempt, and
\* function creation is the only call issued more than once.
C26_RoleCreationNotRetried ==
    /\ Cardinality(RoleCreations) <= 1
    /\ Cardinality(Positions(events, "loadRole", "issue")) <= 1
    /\ \A i \in Positions(events, "loadRole", "fail") :
          /\ i = Len(events)
          /\ pc = "rejected"
          /\ error = "role not available"
          /\ Positions(events, "createFunction", "issue") = {}
          /\ Positions(events, "onRetry", "notify") = {}
          /\ cloud.roles = {} /\ cloud.functions = {}
    /\ \A i \in Positions(events, "onRetry", "notify") :
          events[i - 1].op = "createFunction" /\ events[i - 1].ev = "fail"
    /\ Cardinality(Positions(events, "createFunction", "issue")) > 1 =>
          Positions(events, "onRetry", "notify") # {}

C26_Witness ==
    /\ pc = "rejected"
    /\ options.role = ""
    /\ \E i \in Positions(events, "loadRole", "fail") : events[i].arg = <<"createRole">>

\* C27: a run that found the proxy module file in the source directory is
\* rejected with no dependency installed and the file's content as it was.
C27_ProxyNeverOverwritten ==
    (xp.pc \notin {"idle", "start"} /\ xp.proxyBefore = "existing") =>
        /\ xp.pc = "rejected"
        /\ xpDisk.dependencies = {}
        /\ xpDisk.proxy = "existing"

====
